---- MODULE Spec2Model ----
(***************************************************************************)
(* bevyroids: the collision detector, the hit-event buses, the ship        *)
(* life cycle and the hit reactors, as a frame-stepped state machine.      *)
(*                                                                         *)
(* One frame is: First (Events::update, Time), FixedUpdate (physics        *)
(* movement), then the Update schedule of main.rs:66-92:                   *)
(*   ship_state_system  (.before(CollisionSystemLabel), main.rs:88)        *)
(*   apply_deferred     (the sync point the scheduler puts between a       *)
(*                       system with Commands and a system ordered after)  *)
(*   collision_system<A,B> for the six registered pairs (main.rs:56-61)    *)
(*   asteroid_hit_system, ship_hit_system, ufo_hit_system in any order     *)
(*                      (.after(CollisionSystemLabel), main.rs:90-92)      *)
(*   asteroid_spawn_system, asteroid_generation_system, weapon_system,     *)
(*   ufo_spawn_system   (unordered in main.rs; one admissible order is     *)
(*                       taken here)                                       *)
(*   apply_deferred     (end of the Update schedule)                       *)
(* Durations are in milliseconds.                                          *)
(***************************************************************************)
EXTENDS Integers, Sequences, FiniteSets, TLC

(* ----------------------------- bounds --------------------------------- *)
\* live bullets, asteroids, UFOs and non-ship entities the model allows
MaxBullets == 2
MaxAsteroids == 2
MaxUfos == 1
MaxEntities == 3
\* the frame's Time::delta is k * DeltaStep for k in 0..MaxDeltaSteps: no
\* single frame outlasts a 2 s countdown
MaxDeltaSteps == 1
DeltaStep == 1000

(* ----------------------- program constants ---------------------------- *)
WindowWidth == 800
WindowHeight == 600
ShipRadius == 12
BulletRadius == 2
UfoSize == 30
DeadMillis == 2000
SpawningMillis == 2000
ParticlesPerRing == 12
ShipExplosionSize == 6
UfoExplosionSize == 5
ParticleOffsetMin == 1
ParticleOffsetMax == 20

\* AsteroidSizes resource: half-open ranges start..end
AsteroidSizes ==
    [big    |-> [start |-> 50, end |-> 60],
     medium |-> [start |-> 30, end |-> 40],
     small  |-> [start |-> 10, end |-> 20]]

\* Range<f32>::contains
Contains(range, x) == range.start <= x /\ x < range.end

\* rng.gen_range(start..end): the two extreme draws of the half-open range
GenRange(range) == {range.start, range.end - 1}

Min(a, b) == IF a < b THEN a ELSE b

(* ----------------------------- entities ------------------------------- *)
ShipId == 1
Ids == 1..(1 + MaxEntities)

Origin == <<0, 0>>
\* where the physics integrator may have carried a moving entity when a
\* frame starts: two on-screen points 41 apart
Positions == {Origin, <<9, 40>>}

NoEntity ==
    [kind |-> "None", comps |-> {}, pos |-> Origin, radius |-> 0,
     state |-> "None", elapsed |-> 0, duration |-> 0]

Exists(w, e) == e \in DOMAIN w /\ w[e].kind # "None"

\* Bounding component value (collision.rs reads it as Spatial::radius)
Radius(ent) == ent.radius

\* the six CollisionPlugin::<Hittable, Hurtable> instances
Pairs ==
    {<<"Bullet", "Asteroid">>, <<"Bullet", "Ufo">>, <<"Bullet", "Ship">>,
     <<"Asteroid", "Ship">>, <<"Asteroid", "Ufo">>, <<"Ufo", "Ship">>}

Systems ==
    <<"ship_state_system", "asteroid_hit_system", "ship_hit_system",
      "ufo_hit_system", "asteroid_generation_system", "weapon_system",
      "ufo_spawn_system">>

Reactors == {"asteroid_hit_system", "ship_hit_system", "ufo_hit_system"}

VARIABLES
    world,       \* Ids -> entity record (NoEntity for a free id)
    bus,         \* Pairs -> Events<HitEvent<A,B>> with its one EventReader
    spawn_bus,   \* Events<AsteroidSpawnEvent> with its one EventReader
    commands,    \* system name -> its deferred Commands queue
    pc,          \* position in the frame
    ran,         \* reactors that already ran this frame
    delivered,   \* Pairs -> events the reader yielded this frame (history)
    issued,      \* system name -> commands it issued this frame (history)
    input        \* Res<Time> and Res<ButtonInput<KeyCode>> as the frame's
                 \* weapon and UFO systems read them

vars == <<world, bus, spawn_bus, commands, pc, ran, delivered, issued, input>>

\* the frame's input where no system modelled reads it from the state
NoInput == [delta |-> 0, pressed |-> FALSE, just_pressed |-> FALSE]

(* --------------------------- Timer (Once) ----------------------------- *)
\* variant: a tick that does not advance the timer
TimerTickStuck(ent, dt) == ent.elapsed

\* Timer::tick for TimerMode::Once: elapsed saturates at duration
TimerTick(ent, dt) == Min(ent.elapsed + dt, ent.duration)

\* variant: a timer that reports finished on every tick
TimerFinishedAlways(elapsed, duration) == TRUE

\* Timer::finished after a tick
TimerFinished(elapsed, duration) == elapsed >= duration

(* ------------------------------ Events -------------------------------- *)
\* Events<T> keeps two buffers and a reader keeps a cursor.  Only what the
\* reader can still see is kept: new = events sent this frame, old = events
\* of the previous frame the reader has not read, unread = how many events
\* at the end of old \o new lie past the reader's cursor.
EmptyEvents == [old |-> <<>>, new |-> <<>>, unread |-> 0]

\* EventWriter::send of a sequence of events
EventsSend(ev, es) ==
    [ev EXCEPT !.new = @ \o es, !.unread = @ + Len(es)]

LastN(s, n) == SubSeq(s, Len(s) - n + 1, Len(s))

\* EventReader::read, what the iterator yields
EventsRead(ev) == LastN(ev.old \o ev.new, Min(ev.unread, Len(ev.old) + Len(ev.new)))

\* variant: a read that leaves the reader's cursor where it was
EventsAfterReadKeepsCursor(ev) == ev

\* EventReader::read, the reader's cursor after the iterator is consumed
EventsAfterRead(ev) == [ev EXCEPT !.unread = 0]

\* Events::update (event_update_system, once per frame in First)
EventsUpdate(ev) ==
    LET keep == LastN(ev.new, Min(ev.unread, Len(ev.new)))
    IN  [old |-> keep, new |-> <<>>, unread |-> Len(keep)]

(* ----------------------------- Commands ------------------------------- *)
Cmd(op, e, n, comps, ent) ==
    [op |-> op, e |-> e, n |-> n, comps |-> comps, ent |-> ent]

Despawn(e) == Cmd("despawn", e, 1, {}, NoEntity)
Remove(e, comps) == Cmd("remove", e, 1, comps, NoEntity)
\* insert of components; ent carries the values of Transform and Bounding
Insert(e, comps, ent) == Cmd("insert", e, 1, comps, ent)
\* insert(Ship::dead(d)) repeated n times: ent carries the Ship component
InsertShip(e, n, ent) == Cmd("insert_ship", e, n, {}, ent)
Spawn(ent) == Cmd("spawn", 0, 1, {}, ent)
\* n spawns of ExplosionBundle around ent.pos; comps holds the radial
\* offsets a particle may draw (rng.gen_range(1.0..20.0)), e the entity that
\* exploded
SpawnExplosions(e, n, offsets, ent) == Cmd("spawn_explosions", e, n, offsets, ent)

FreeIds(w) == {i \in Ids \ {ShipId} : w[i].kind = "None"}
LowestFree(w) == CHOOSE i \in FreeIds(w) : \A j \in FreeIds(w) : i <= j

\* one command applied to the world
ApplyCommand(w, c) ==
    CASE c.op = "despawn" ->
           IF Exists(w, c.e) THEN [w EXCEPT ![c.e] = NoEntity] ELSE w
      [] c.op = "remove" ->
           IF Exists(w, c.e) THEN [w EXCEPT ![c.e].comps = @ \ c.comps] ELSE w
      [] c.op = "insert" ->
           IF Exists(w, c.e)
           THEN [w EXCEPT ![c.e].comps = @ \cup c.comps,
                          ![c.e].pos = IF "Transform" \in c.comps THEN c.ent.pos ELSE @,
                          ![c.e].radius = IF "Bounding" \in c.comps THEN c.ent.radius ELSE @]
           ELSE w
      [] c.op = "insert_ship" ->
           IF Exists(w, c.e)
           THEN [w EXCEPT ![c.e].state = c.ent.state,
                          ![c.e].elapsed = c.ent.elapsed,
                          ![c.e].duration = c.ent.duration]
           ELSE w
      [] c.op = "spawn" ->
           IF FreeIds(w) # {} THEN [w EXCEPT ![LowestFree(w)] = c.ent] ELSE w
      [] OTHER -> w

RECURSIVE ApplyQueue(_, _)
ApplyQueue(w, q) ==
    IF q = <<>> THEN w ELSE ApplyQueue(ApplyCommand(w, Head(q)), Tail(q))

RECURSIVE ApplyAll(_, _, _)
\* every system's queue, in the schedule's system order
ApplyAll(w, cmds, i) ==
    IF i > Len(Systems) THEN w
    ELSE ApplyAll(ApplyQueue(w, cmds[Systems[i]]), cmds, i + 1)

RECURSIVE Concat(_, _, _)
Concat(cmds, i, acc) ==
    IF i > Len(Systems) THEN acc
    ELSE Concat(cmds, i + 1, acc \o cmds[Systems[i]])

Burst(c) == [of |-> c.e, n |-> c.n, at |-> c.ent.pos, offsets |-> c.comps]

\* the explosion bursts among the queued commands
Bursts(q) ==
    LET s == SelectSeq(q, LAMBDA c : c.op = "spawn_explosions")
    IN  [k \in 1..Len(s) |-> Burst(s[k])]

NoCommands == [s \in {Systems[i] : i \in 1..Len(Systems)} |-> <<>>]

(* ------------------------------- Init --------------------------------- *)
\* Ship::spawn(Duration::from_secs(0))
ShipSpawn(d) ==
    [NoEntity EXCEPT !.kind = "Ship", !.state = "Spawning", !.elapsed = 0, !.duration = d]

\* after setup_system: the one ship, Spawning with a zero timer
Init ==
    /\ world = [i \in Ids |-> IF i = ShipId THEN ShipSpawn(0) ELSE NoEntity]
    /\ bus = [p \in Pairs |-> EmptyEvents]
    /\ spawn_bus = EmptyEvents
    /\ commands = NoCommands
    /\ pc = "first"
    /\ ran = {}
    /\ delivered = [p \in Pairs |-> <<>>]
    /\ issued = NoCommands
    /\ input = NoInput

(* ------------------------- First, FixedUpdate ------------------------- *)
Deltas == {k * DeltaStep : k \in 0..MaxDeltaSteps}

\* First: Events::update of every event type; the per-frame history is
\* reset
First ==
    /\ pc = "first"
    /\ bus' = [p \in Pairs |-> EventsUpdate(bus[p])]
    /\ spawn_bus' = EventsUpdate(spawn_bus)
    /\ delivered' = [p \in Pairs |-> <<>>]
    /\ issued' = NoCommands
    /\ ran' = {}
    /\ pc' = "fixed_update"
    /\ UNCHANGED <<input, world, commands>>

\* the entities movement_system displaces: a Transform and a non-zero
\* Velocity (the ship's stays Velocity::default(): no thrust input)
Moving(ent) ==
    /\ ent.kind \in {"Bullet", "Asteroid", "Ufo"}
    /\ {"Transform", "Velocity"} \subseteq ent.comps

\* FixedUpdate: translation += velocity * time_step, as a displacement to
\* any of Positions
movement_system ==
    /\ pc = "fixed_update"
    /\ \E to \in [Ids -> Positions] :
         world' = [i \in Ids |->
                     IF Moving(world[i]) THEN [world[i] EXCEPT !.pos = to[i]]
                     ELSE world[i]]
    /\ pc' = "ship_state"
    /\ UNCHANGED <<input, bus, spawn_bus, commands, ran, delivered, issued>>

(* -------------------------- ship_state_system ------------------------- *)
\* variant: the Dead arm forgets to remove Collidable
DeadStripKeepsCollidable == {"ShapeBundle", "SteeringControl", "Weapon", "ThrustEngine"}

\* the components the Dead arm removes
DeadStrip == {"ShapeBundle", "SteeringControl", "Weapon", "ThrustEngine", "Collidable"}

\* variant: Collidable comes back as soon as the ship enters Spawning
SpawningInsertCollidable ==
    {"ShapeBundle", "Stroke", "Transform", "Bounding", "Velocity", "SpeedLimit",
     "Damping", "ThrustEngine", "AngularVelocity", "SteeringControl",
     "BoundaryWrap", "Flick", "Collidable"}

SpawningInsert ==
    {"ShapeBundle", "Stroke", "Transform", "Bounding", "Velocity", "SpeedLimit",
     "Damping", "ThrustEngine", "AngularVelocity", "SteeringControl",
     "BoundaryWrap", "Flick"}

AliveInsert == {"Weapon", "Collidable"}

\* Ship::alive(), Ship::dead(d), Ship::spawn(d) as the Ship component's value
ShipAlive(ent) == [ent EXCEPT !.state = "Alive", !.elapsed = 0, !.duration = 0]
ShipDead(ent, d) == [ent EXCEPT !.state = "Dead", !.elapsed = 0, !.duration = d]
ShipSpawning(ent, d) == [ent EXCEPT !.state = "Spawning", !.elapsed = 0, !.duration = d]

\* variant: the Dead arm forgets to remove the Weapon
DeadCommandsKeepWeapon(e, ent) ==
    IF ent.elapsed = 0 THEN <<Remove(e, DeadStrip \ {"Weapon"})>> ELSE <<>>

\* the commands the Dead arm issues
DeadCommands(e, ent) ==
    IF ent.elapsed = 0 THEN <<Remove(e, DeadStrip)>> ELSE <<>>

\* the commands the Spawning arm issues
SpawningCommands(e, ent, dt) ==
    (IF ent.elapsed = 0
     THEN <<Insert(e, SpawningInsert,
                   [NoEntity EXCEPT !.pos = Origin, !.radius = ShipRadius])>>
     ELSE <<>>)
    \o (IF TimerFinished(TimerTick(ent, dt), ent.duration)
        THEN <<Insert(e, AliveInsert, NoEntity), Remove(e, {"Flick"})>>
        ELSE <<>>)

\* the Ship component after the match on ship.state
ShipStateStep(ent, dt) ==
    CASE ent.state = "Dead" ->
           IF TimerFinished(TimerTick(ent, dt), ent.duration)
           THEN ShipSpawning(ent, SpawningMillis)
           ELSE [ent EXCEPT !.elapsed = TimerTick(ent, dt)]
      [] ent.state = "Spawning" ->
           IF TimerFinished(TimerTick(ent, dt), ent.duration)
           THEN ShipAlive(ent)
           ELSE [ent EXCEPT !.elapsed = TimerTick(ent, dt)]
      [] OTHER -> ent

ShipStateCommands(e, ent, dt) ==
    CASE ent.state = "Dead" -> DeadCommands(e, ent)
      [] ent.state = "Spawning" -> SpawningCommands(e, ent, dt)
      [] OTHER -> <<>>

RECURSIVE ShipStateQueue(_, _, _)
\* the loop over Query<(Entity, &mut Ship)>, entities in id order
ShipStateQueue(w, dt, i) ==
    IF i > 1 + MaxEntities THEN <<>>
    ELSE (IF w[i].kind = "Ship" THEN ShipStateCommands(i, w[i], dt) ELSE <<>>)
         \o ShipStateQueue(w, dt, i + 1)

\* the whole system for one value of time.delta()
ShipStateSystem(delta) ==
    /\ world' = [i \in Ids |->
                   IF world[i].kind = "Ship" THEN ShipStateStep(world[i], delta)
                   ELSE world[i]]
    /\ commands' = [commands EXCEPT !["ship_state_system"] = @ \o ShipStateQueue(world, delta, 1)]
    /\ issued' = [issued EXCEPT !["ship_state_system"] = @ \o ShipStateQueue(world, delta, 1)]

\* time.delta() is the frame's input
ship_state_system ==
    /\ pc = "ship_state"
    /\ \E delta \in Deltas : ShipStateSystem(delta)
    /\ pc' = "sync"
    /\ UNCHANGED <<input, bus, spawn_bus, ran, delivered>>

(* ---------------------------- apply_deferred -------------------------- *)
\* a sync point: every pending queue is applied, in system order
apply_deferred ==
    /\ pc \in {"sync", "end"}
    /\ world' = ApplyAll(world, commands, 1)
    /\ commands' = NoCommands
    /\ pc' = IF pc = "sync" THEN "collision" ELSE "first"
    /\ UNCHANGED <<input, bus, spawn_bus, ran, delivered, issued>>

(* --------------------------- collision_system ------------------------- *)
\* |v|^2 of the difference of two translations
LengthSquared(p, q) ==
    (p[1] - q[1]) * (p[1] - q[1]) + (p[2] - q[2]) * (p[2] - q[2])

\* variant: touching spheres count as intersecting
IntersectsTouching(a, b) ==
    LengthSquared(a.pos, b.pos) <= (Radius(a) + Radius(b)) * (Radius(a) + Radius(b))

\* distance < hit_spatial.radius + hurt_spatial.radius; both sides are
\* non-negative, so the test is the same on the squares
Intersects(a, b) ==
    LengthSquared(a.pos, b.pos) < (Radius(a) + Radius(b)) * (Radius(a) + Radius(b))

\* Query<(Entity, &Transform, &Spatial), (With<Collidable>, With<K>)>
Matches(ent, kind) ==
    /\ ent.kind = kind
    /\ {"Collidable", "Transform", "Bounding"} \subseteq ent.comps

RECURSIVE QueryIter(_, _, _)
\* the ids of the query's entities, in iteration (id) order
QueryIter(w, kind, i) ==
    IF i \notin DOMAIN w THEN <<>>
    ELSE (IF Matches(w[i], kind) THEN <<i>> ELSE <<>>) \o QueryIter(w, kind, i + 1)

\* the candidate pairs of the two nested loops, outer loop first
NestedLoop(hs, us) ==
    [k \in 1..(Len(hs) * Len(us)) |->
       <<hs[((k - 1) \div Len(us)) + 1], us[((k - 1) % Len(us)) + 1]>>]

\* the HitEvent<A,B>s one run of collision_system::<A,B> sends, in order
collision_events(w, pair) ==
    SelectSeq(NestedLoop(QueryIter(w, pair[1], 1), QueryIter(w, pair[2], 1)),
              LAMBDA h : Intersects(w[h[1]], w[h[2]]))

\* the six collision_system instances; each reads the world and writes its
\* own Events<HitEvent<A,B>>
collision_system ==
    /\ pc = "collision"
    /\ bus' = [p \in Pairs |-> EventsSend(bus[p], collision_events(world, p))]
    /\ pc' = "react"
    /\ UNCHANGED <<input, world, spawn_bus, commands, ran, delivered, issued>>

(* ----------------------------- explosions ----------------------------- *)
\* rng.gen_range(1.0..20.0), the radial offset of one particle
ParticleOffsets == GenRange([start |-> ParticleOffsetMin, end |-> ParticleOffsetMax])


\* for n in 0..12 * size: one ExplosionBundle spawn per iteration, each at
\* one of the offsets
ExplosionLoop(e, size, ent) ==
    SpawnExplosions(e, Cardinality(0..(ParticlesPerRing * size - 1)), ParticleOffsets, ent)

(* -------------------------- asteroid_hit_system ----------------------- *)
Hittable(hit) == hit[1]
Hurtable(hit) == hit[2]

\* Query<(&Transform, &Bounding), With<Asteroid>>::get
AsteroidLookup(w, e) ==
    Exists(w, e) /\ w[e].kind = "Asteroid" /\ {"Transform", "Bounding"} \subseteq w[e].comps

AsteroidSpawnEvent(pos, radius) == [pos |-> pos, radius |-> radius]

\* variant: the fragments of a big asteroid keep its radius
SplitEventsSameTier(pos, radius, medium, small) ==
    IF Contains(AsteroidSizes.big, radius)
    THEN <<AsteroidSpawnEvent(pos, radius), AsteroidSpawnEvent(pos, radius)>>
    ELSE IF Contains(AsteroidSizes.medium, radius)
    THEN <<AsteroidSpawnEvent(pos, small), AsteroidSpawnEvent(pos, small),
           AsteroidSpawnEvent(pos, small)>>
    ELSE <<>>

\* the AsteroidSpawnEvents sent for a hit asteroid of the given radius;
\* medium and small are the radii drawn from the two ranges
SplitEvents(pos, radius, medium, small) ==
    IF Contains(AsteroidSizes.big, radius)
    THEN <<AsteroidSpawnEvent(pos, medium), AsteroidSpawnEvent(pos, medium)>>
    ELSE IF Contains(AsteroidSizes.medium, radius)
    THEN <<AsteroidSpawnEvent(pos, small), AsteroidSpawnEvent(pos, small),
           AsteroidSpawnEvent(pos, small)>>
    ELSE <<>>

\* explosion_size of a hit asteroid
AsteroidExplosionSize(radius) ==
    IF Contains(AsteroidSizes.big, radius) THEN 5
    ELSE IF Contains(AsteroidSizes.medium, radius) THEN 3
    ELSE 1

\* variant: nothing is remembered between the events of a frame
AsteroidHitNeverSkipped(removed, hit) == FALSE

\* the continue of the loop body: the event is skipped
AsteroidHitSkipped(removed, hit) ==
    Hurtable(hit) \in removed \/ Hittable(hit) \in removed

\* variant: only the asteroid is despawned
AsteroidHitDespawnsAsteroidOnly(hit) == <<Despawn(Hurtable(hit))>>

\* the despawns that end the loop body
AsteroidHitDespawns(hit) == <<Despawn(Hurtable(hit)), Despawn(Hittable(hit))>>

RECURSIVE AsteroidHitProcessed(_, _, _)
\* the indices of the events the loop does not skip
AsteroidHitProcessed(hits, k, removed) ==
    IF k > Len(hits) THEN {}
    ELSE IF AsteroidHitSkipped(removed, hits[k])
    THEN AsteroidHitProcessed(hits, k + 1, removed)
    ELSE {k} \cup AsteroidHitProcessed(hits, k + 1,
                      removed \cup {Hurtable(hits[k]), Hittable(hits[k])})

RECURSIVE AsteroidHitLoop(_, _, _, _, _)
\* for hit in asteroid_hits.read(): the commands and spawn events issued;
\* draw[k] holds the random draws of iteration k
AsteroidHitLoop(w, hits, k, removed, draw) ==
    IF k > Len(hits) THEN [cmds |-> <<>>, spawns |-> <<>>]
    ELSE IF AsteroidHitSkipped(removed, hits[k])
    THEN AsteroidHitLoop(w, hits, k + 1, removed, draw)
    ELSE
      LET asteroid == Hurtable(hits[k])
          found == AsteroidLookup(w, asteroid)
          rest == AsteroidHitLoop(w, hits, k + 1,
                      removed \cup {asteroid, Hittable(hits[k])}, draw)
      IN  [cmds |->
             (IF found
              THEN <<ExplosionLoop(asteroid, AsteroidExplosionSize(Radius(w[asteroid])),
                                   w[asteroid])>>
              ELSE <<>>)
             \o AsteroidHitDespawns(hits[k]) \o rest.cmds,
           spawns |->
             (IF found
              THEN SplitEvents(w[asteroid].pos, Radius(w[asteroid]),
                               draw[k].medium, draw[k].small)
              ELSE <<>>)
             \o rest.spawns]

AsteroidDraws ==
    [medium : GenRange(AsteroidSizes.medium), small : GenRange(AsteroidSizes.small)]

asteroid_hit_system ==
    /\ pc = "react"
    /\ "asteroid_hit_system" \notin ran
    /\ LET pair == <<"Bullet", "Asteroid">>
           hits == EventsRead(bus[pair])
       IN  /\ \E draw \in [AsteroidHitProcessed(hits, 1, {}) -> AsteroidDraws] :
                LET out == AsteroidHitLoop(world, hits, 1, {}, draw)
                IN  /\ commands' = [commands EXCEPT !["asteroid_hit_system"] = @ \o out.cmds]
                    /\ issued' = [issued EXCEPT !["asteroid_hit_system"] = @ \o out.cmds]
                    /\ spawn_bus' = EventsSend(spawn_bus, out.spawns)
           /\ bus' = [bus EXCEPT ![pair] = EventsAfterRead(@)]
           /\ delivered' = [delivered EXCEPT ![pair] = @ \o hits]
    /\ ran' = ran \cup {"asteroid_hit_system"}
    /\ pc' = IF ran' = Reactors THEN "asteroid_spawn" ELSE "react"
    /\ UNCHANGED <<input, world>>

(* ---------------------------- ship_hit_system ------------------------- *)
\* Query<&Transform, With<Ship>>::get
ShipLookup(w, e) ==
    Exists(w, e) /\ w[e].kind = "Ship" /\ "Transform" \in w[e].comps

\* variant: the ship is despawned like the other hurtables are
ShipHitBodyDespawns(w, ship) ==
    IF ShipLookup(w, ship)
    THEN <<ExplosionLoop(ship, ShipExplosionSize, w[ship]), Despawn(ship)>>
    ELSE <<>>

\* the body run for one hurtable: 12 * 6 iterations, each inserting
\* Ship::dead(2s) and spawning one particle
ShipHitBody(w, ship) ==
    IF ShipLookup(w, ship)
    THEN <<InsertShip(ship, Cardinality(0..(ParticlesPerRing * ShipExplosionSize - 1)),
                      ShipDead(w[ship], DeadMillis)),
           ExplosionLoop(ship, ShipExplosionSize, w[ship])>>
    ELSE <<>>

RECURSIVE ShipHitLoop(_, _, _)
\* for ship in hits: no entity is remembered between iterations
ShipHitLoop(w, hits, k) ==
    IF k > Len(hits) THEN <<>>
    ELSE ShipHitBody(w, Hurtable(hits[k])) \o ShipHitLoop(w, hits, k + 1)

ship_hit_system ==
    /\ pc = "react"
    /\ "ship_hit_system" \notin ran
    /\ LET pa == <<"Asteroid", "Ship">>
           pb == <<"Bullet", "Ship">>
           pu == <<"Ufo", "Ship">>
           hits == EventsRead(bus[pa]) \o EventsRead(bus[pb]) \o EventsRead(bus[pu])
       IN  /\ LET out == ShipHitLoop(world, hits, 1)
               IN  /\ commands' = [commands EXCEPT !["ship_hit_system"] = @ \o out]
                   /\ issued' = [issued EXCEPT !["ship_hit_system"] = @ \o out]
           /\ bus' = [bus EXCEPT ![pa] = EventsAfterRead(@),
                                 ![pb] = EventsAfterRead(@),
                                 ![pu] = EventsAfterRead(@)]
           /\ delivered' = [delivered EXCEPT ![pa] = @ \o EventsRead(bus[pa]),
                                             ![pb] = @ \o EventsRead(bus[pb]),
                                             ![pu] = @ \o EventsRead(bus[pu])]
    /\ ran' = ran \cup {"ship_hit_system"}
    /\ pc' = IF ran' = Reactors THEN "asteroid_spawn" ELSE "react"
    /\ UNCHANGED <<input, world, spawn_bus>>

(* ----------------------------- ufo_hit_system ------------------------- *)
\* Query<&Transform, With<Ufo>>::get
UfoLookup(w, e) ==
    Exists(w, e) /\ w[e].kind = "Ufo" /\ "Transform" \in w[e].comps

\* variant: no UFO is remembered between iterations
UfoHitNeverSkipped(removed, hit) == FALSE

\* if removed.contains(&ufo) { continue; }
UfoHitSkipped(removed, hit) == Hurtable(hit) \in removed

\* variant: the entity that hit the UFO is despawned with it
UfoHitLoopBothDespawned(w, hits, k, removed) ==
    [cmds |-> [j \in 1..(Len(hits) + 1 - k) |-> Despawn(Hurtable(hits[k + j - 1]))]
              \o [j \in 1..(Len(hits) + 1 - k) |-> Despawn(Hittable(hits[k + j - 1]))],
     removed |-> removed \cup {Hurtable(hits[j]) : j \in k..Len(hits)}]

RECURSIVE UfoHitLoop(_, _, _, _)
\* for ufo in hits: the commands issued and the removed set it leaves
UfoHitLoop(w, hits, k, removed) ==
    IF k > Len(hits) THEN [cmds |-> <<>>, removed |-> removed]
    ELSE IF UfoHitSkipped(removed, hits[k])
    THEN UfoHitLoop(w, hits, k + 1, removed)
    ELSE
      LET ufo == Hurtable(hits[k])
          rest == UfoHitLoop(w, hits, k + 1, removed \cup {ufo})
      IN  [cmds |->
             (IF UfoLookup(w, ufo)
              THEN <<ExplosionLoop(ufo, UfoExplosionSize, w[ufo])>>
              ELSE <<>>)
             \o <<Despawn(ufo)>> \o rest.cmds,
           removed |-> rest.removed]

RECURSIVE UfoBulletLoop(_, _, _)
\* for hit in bullet_hits.read(): the second loop, over the bullets
UfoBulletLoop(hits, k, removed) ==
    IF k > Len(hits) THEN <<>>
    ELSE IF Hittable(hits[k]) \in removed
    THEN UfoBulletLoop(hits, k + 1, removed)
    ELSE <<Despawn(Hittable(hits[k]))>>
         \o UfoBulletLoop(hits, k + 1, removed \cup {Hittable(hits[k])})

\* what the second bullet_hits.read() of ufo_hit_system yields: the same
\* EventReader, after the first read consumed it
UfoSecondRead(ev) == EventsRead(EventsAfterRead(ev))

ufo_hit_system ==
    /\ pc = "react"
    /\ "ufo_hit_system" \notin ran
    /\ LET pb == <<"Bullet", "Ufo">>
           pa == <<"Asteroid", "Ufo">>
           hits == EventsRead(bus[pb]) \o EventsRead(bus[pa])
           again == UfoSecondRead(bus[pb])
       IN  /\ LET first == UfoHitLoop(world, hits, 1, {})
                   out == first.cmds \o UfoBulletLoop(again, 1, first.removed)
               IN  /\ commands' = [commands EXCEPT !["ufo_hit_system"] = @ \o out]
                   /\ issued' = [issued EXCEPT !["ufo_hit_system"] = @ \o out]
           /\ bus' = [bus EXCEPT ![pb] = EventsAfterRead(EventsAfterRead(@)),
                                 ![pa] = EventsAfterRead(@)]
           /\ delivered' = [delivered EXCEPT ![pb] = @ \o EventsRead(bus[pb]) \o again,
                                             ![pa] = @ \o EventsRead(bus[pa])]
    /\ ran' = ran \cup {"ufo_hit_system"}
    /\ pc' = IF ran' = Reactors THEN "asteroid_spawn" ELSE "react"
    /\ UNCHANGED <<input, world, spawn_bus>>

(* ------------------------------ spawners ------------------------------ *)
\* the world once the pending queues are applied
Projected == ApplyAll(world, commands, 1)

Count(w, kinds) == Cardinality({i \in Ids : w[i].kind \in kinds})

\* how many more entities of a kind the bounds leave room for
Room(kind, max) ==
    Min(max - Count(Projected, {kind}),
        MaxEntities - Count(Projected, {"Bullet", "Asteroid", "Ufo"}))

HalfWidth == WindowWidth \div 2
HalfHeight == WindowHeight \div 2

\* the position asteroid_spawn_system picks: an edge, 2 * radius outside
AsteroidSpawnPosition(x, y, radius, horizontal) ==
    LET c == radius * 2
    IN  IF horizontal
        THEN <<x, IF y > 0 THEN HalfHeight + c ELSE -HalfHeight - c>>
        ELSE <<IF x > 0 THEN HalfWidth + c ELSE -HalfWidth - c, y>>

\* rng.gen_range(1..=3) then gen_range of the size picked
AsteroidSpawnRadii ==
    GenRange(AsteroidSizes.big) \cup GenRange(AsteroidSizes.medium)
        \cup GenRange(AsteroidSizes.small)

\* the draws of x, y and of the edge taken here: the top edge left of the
\* centre, and the right edge below it
EdgeDraws ==
    {[x |-> -HalfWidth, y |-> HalfHeight - 1, horizontal |-> TRUE],
     [x |-> HalfWidth - 1, y |-> -HalfHeight, horizontal |-> FALSE]}

\* runs on its 0.5 s timer and sends with rng.gen_bool(1.0 / 3.0)
asteroid_spawn_system ==
    /\ pc = "asteroid_spawn"
    /\ \/ UNCHANGED spawn_bus
       \/ /\ Room("Asteroid", MaxAsteroids) > spawn_bus.unread
          /\ \E d \in EdgeDraws, radius \in AsteroidSpawnRadii :
               spawn_bus' = EventsSend(spawn_bus,
                   <<AsteroidSpawnEvent(
                       AsteroidSpawnPosition(d.x, d.y, radius, d.horizontal), radius)>>)
    /\ pc' = "asteroid_generation"
    /\ UNCHANGED <<input, world, bus, commands, ran, delivered, issued>>

AsteroidComps ==
    {"ShapeBundle", "Stroke", "Transform", "Asteroid", "Collidable", "Bounding",
     "Velocity", "AngularVelocity", "BoundaryRemoval"}

\* the entity asteroid_generation_system spawns for one event
AsteroidEntity(ev) ==
    [NoEntity EXCEPT !.kind = "Asteroid", !.comps = AsteroidComps,
                     !.pos = ev.pos, !.radius = ev.radius]

\* for AsteroidSpawnEvent(position, bounds) in asteroids.read(): one spawn
\* per event, for the events the model has room for
GenerationLoop(events, room) ==
    [k \in 1..Min(Len(events), room) |-> Spawn(AsteroidEntity(events[k]))]

asteroid_generation_system ==
    /\ pc = "asteroid_generation"
    /\ LET out == GenerationLoop(EventsRead(spawn_bus), Room("Asteroid", MaxAsteroids))
       IN  /\ commands' = [commands EXCEPT !["asteroid_generation_system"] = @ \o out]
           /\ issued' = [issued EXCEPT !["asteroid_generation_system"] = @ \o out]
    /\ spawn_bus' = EventsAfterRead(spawn_bus)
    /\ pc' = "weapon"
    /\ UNCHANGED <<input, world, bus, ran, delivered>>

BulletComps ==
    {"ShapeBundle", "Fill", "Transform", "Bullet", "Collidable", "Bounding",
     "Velocity", "BoundaryRemoval"}

\* Query<(&Bounding, Option<&WeaponTarget>, &Transform, &mut Weapon)>
HasWeapon(ent) == {"Bounding", "Transform", "Weapon"} \subseteq ent.comps

\* the bullet a weapon spawns: at translation + dir * (bounds + 10), with
\* dir the x axis
BulletEntity(ent) ==
    [NoEntity EXCEPT !.kind = "Bullet", !.comps = BulletComps,
                     !.pos = <<ent.pos[1] + (Radius(ent) + 10), ent.pos[2]>>,
                     !.radius = BulletRadius]

RECURSIVE WeaponLoop(_, _, _)
WeaponLoop(w, firing, i) ==
    IF i > 1 + MaxEntities THEN <<>>
    ELSE (IF i \in firing THEN <<Spawn(BulletEntity(w[i]))>> ELSE <<>>)
         \o WeaponLoop(w, firing, i + 1)

\* the weapons whose cooldown has finished with triggered set are an input
\* here: any set of the entities that carry a Weapon
weapon_system ==
    /\ pc = "weapon"
    /\ \E firing \in SUBSET {i \in Ids : HasWeapon(world[i])} :
         /\ Cardinality(firing) <= Room("Bullet", MaxBullets)
         /\ commands' = [commands EXCEPT !["weapon_system"] = @ \o WeaponLoop(world, firing, 1)]
         /\ issued' = [issued EXCEPT !["weapon_system"] = @ \o WeaponLoop(world, firing, 1)]
    /\ pc' = "ufo_spawn"
    /\ UNCHANGED <<input, world, bus, spawn_bus, ran, delivered>>

UfoComps ==
    {"ShapeBundle", "Stroke", "Transform", "Ufo", "Weapon", "Bounding", "Velocity",
     "Collidable", "BoundaryRemoval"}

\* the UFO spawned at x = +/-(w + c), y in -h..h with h = 0.8 * height / 2
UfoEntity(right, y) ==
    [NoEntity EXCEPT !.kind = "Ufo", !.comps = UfoComps,
                     !.pos = <<IF right THEN HalfWidth + UfoSize ELSE -HalfWidth - UfoSize, y>>,
                     !.radius = UfoSize \div 2]

\* runs on its 1 s timer and spawns with rng.gen_bool(1.0 / 10.0)
ufo_spawn_system ==
    /\ pc = "ufo_spawn"
    /\ \/ UNCHANGED <<commands, issued>>
       \/ /\ Room("Ufo", MaxUfos) > 0
          /\ \E right \in BOOLEAN, y \in {-((WindowHeight * 8) \div 20)} :
               /\ commands' = [commands EXCEPT !["ufo_spawn_system"] = @ \o <<Spawn(UfoEntity(right, y))>>]
               /\ issued' = [issued EXCEPT !["ufo_spawn_system"] = @ \o <<Spawn(UfoEntity(right, y))>>]
    /\ pc' = "end"
    /\ UNCHANGED <<input, world, bus, spawn_bus, ran, delivered>>

(* --------------------------- specification ---------------------------- *)
Next ==
    \/ First
    \/ movement_system
    \/ ship_state_system
    \/ apply_deferred
    \/ collision_system
    \/ asteroid_hit_system
    \/ ship_hit_system
    \/ ufo_hit_system
    \/ asteroid_spawn_system
    \/ asteroid_generation_system
    \/ weapon_system
    \/ ufo_spawn_system

Spec == Init /\ [][Next]_vars

(* ======================================================================= *)
(* Properties                                                              *)
(* ======================================================================= *)
BulletAsteroid == <<"Bullet", "Asteroid">>
BulletUfo == <<"Bullet", "Ufo">>
BulletShip == <<"Bullet", "Ship">>
AsteroidShip == <<"Asteroid", "Ship">>
AsteroidUfo == <<"Asteroid", "Ufo">>
UfoShip == <<"Ufo", "Ship">>
ShipPairs == {BulletShip, AsteroidShip, UfoShip}

\* the frame positions after every reactor ran, up to the next First
AfterReactors ==
    pc \in {"asteroid_spawn", "asteroid_generation", "weapon", "ufo_spawn", "end", "first"}

\* how many elements of a sequence satisfy a test
Occurrences(seq, Test(_)) == Cardinality({k \in 1..Len(seq) : Test(seq[k])})

\* despawn commands a system issued for an entity this frame
DespawnsOf(system, e) ==
    Occurrences(issued[system], LAMBDA c : c.op = "despawn" /\ c.e = e)

\* explosion bursts a system issued for an entity this frame
BurstsOf(system, e) ==
    Occurrences(issued[system], LAMBDA c : c.op = "spawn_explosions" /\ c.e = e)

\* explosion particles a system spawned for an entity this frame
RECURSIVE ParticlesIn(_, _)
ParticlesIn(q, e) ==
    IF q = <<>> THEN 0
    ELSE (IF Head(q).op = "spawn_explosions" /\ Head(q).e = e THEN Head(q).n ELSE 0)
         + ParticlesIn(Tail(q), e)

\* squared distance of two entities' translations, and their radii summed
DistanceSquared(a, b) ==
    (world[a].pos[1] - world[b].pos[1]) * (world[a].pos[1] - world[b].pos[1])
    + (world[a].pos[2] - world[b].pos[2]) * (world[a].pos[2] - world[b].pos[2])
RadiusSum(a, b) == world[a].radius + world[b].radius

\* a is a Collidable entity of category kind, with a position and a radius
CollidableOf(a, kind) ==
    /\ world[a].kind = kind
    /\ {"Collidable", "Transform", "Bounding"} \subseteq world[a].comps

(* C1: in every frame and for every registered pair (A,B), once the        *)
(* detector ran, the pair's bus holds exactly one hit event (a,b) for each *)
(* Collidable A-entity a and Collidable B-entity b whose distance is       *)
(* strictly below the sum of their radii, and none for any other pair,     *)
(* the touching case distance = radius(a) + radius(b) included; every      *)
(* event names such a pair.                                                *)
C1_DetectorReportsIff ==
    pc = "react" =>
      \A p \in Pairs :
        /\ \A a, b \in Ids :
             (CollidableOf(a, p[1]) /\ CollidableOf(b, p[2])) =>
               Occurrences(bus[p].new, LAMBDA h : h = <<a, b>>)
                 = IF DistanceSquared(a, b) < RadiusSum(a, b) * RadiusSum(a, b)
                   THEN 1 ELSE 0
        /\ \A k \in 1..Len(bus[p].new) :
             CollidableOf(bus[p].new[k][1], p[1]) /\ CollidableOf(bus[p].new[k][2], p[2])

\* a frame with a hit, a pair exactly touching and a pair apart
C1_Witness ==
    /\ pc = "react"
    /\ \E p \in Pairs : bus[p].new # <<>>
    /\ \E p \in Pairs : \E a, b \in Ids :
         /\ CollidableOf(a, p[1]) /\ CollidableOf(b, p[2])
         /\ DistanceSquared(a, b) = RadiusSum(a, b) * RadiusSum(a, b)
    /\ \E p \in Pairs : \E a, b \in Ids :
         /\ CollidableOf(a, p[1]) /\ CollidableOf(b, p[2])
         /\ DistanceSquared(a, b) > RadiusSum(a, b) * RadiusSum(a, b)

Ships == {i \in Ids : world[i].kind = "Ship"}

C3_SplitThreeMediumTwoSmall ==
    (/\ pc = "react"
     /\ "asteroid_hit_system" \in ran
     /\ Len(delivered[BulletAsteroid]) = 1) =>
      LET parent == world[delivered[BulletAsteroid][1][2]]
          requests == spawn_bus.new
          AllIn(range) ==
              \A k \in 1..Len(requests) :
                  /\ Contains(range, requests[k].radius)
                  /\ requests[k].pos = parent.pos
      IN  /\ Contains(AsteroidSizes.big, parent.radius) =>
                Len(requests) = 3 /\ AllIn(AsteroidSizes.medium)
          /\ Contains(AsteroidSizes.medium, parent.radius) =>
                Len(requests) = 2 /\ AllIn(AsteroidSizes.small)
          /\ Contains(AsteroidSizes.small, parent.radius) => Len(requests) = 0

(* C4, as stated: for every Bullet x Asteroid hit event of a frame, the    *)
(* reactor despawns both the asteroid and the bullet it names, also when   *)
(* one bullet overlaps several asteroids or several bullets overlap one    *)
(* asteroid.                                                               *)
C4_BothDespawnedForEveryEvent ==
    "asteroid_hit_system" \in ran =>
      \A k \in 1..Len(delivered[BulletAsteroid]) :
        /\ DespawnsOf("asteroid_hit_system", delivered[BulletAsteroid][k][1]) >= 1
        /\ DespawnsOf("asteroid_hit_system", delivered[BulletAsteroid][k][2]) >= 1

(* C4, amended: for every Bullet x Asteroid hit event of a frame, the      *)
(* reactor despawns both the asteroid and the bullet when no earlier event *)
(* of the frame names either of them; an event that shares its asteroid or *)
(* its bullet with an earlier one may be skipped, and then at least one of *)
(* its two entities is despawned, and no entity is despawned twice.        *)
C4_BothDespawnedUnlessSkipped ==
    "asteroid_hit_system" \in ran =>
      LET hits == delivered[BulletAsteroid]
          Gone(e) == DespawnsOf("asteroid_hit_system", e)
      IN  \A k \in 1..Len(hits) :
            /\ Gone(hits[k][1]) <= 1 /\ Gone(hits[k][2]) <= 1
            /\ Gone(hits[k][1]) + Gone(hits[k][2]) >= 1
            /\ (\A j \in 1..(k - 1) :
                   hits[j][1] # hits[k][1] /\ hits[j][2] # hits[k][2])
               => (Gone(hits[k][1]) = 1 /\ Gone(hits[k][2]) = 1)

\* two events of one frame share an entity, and the later one's other
\* entity is not despawned
C4_Witness ==
    /\ "asteroid_hit_system" \in ran
    /\ Len(delivered[BulletAsteroid]) >= 2
    /\ \E k \in 1..Len(delivered[BulletAsteroid]) :
         \/ DespawnsOf("asteroid_hit_system", delivered[BulletAsteroid][k][1]) = 0
         \/ DespawnsOf("asteroid_hit_system", delivered[BulletAsteroid][k][2]) = 0

(* C5: a frame in which the detector reports one Asteroid x Ship hit on an *)
(* Alive ship, and nothing else hits the ship, ends with the ship entity   *)
(* still existing, its state Dead with a 2-second countdown not yet        *)
(* started, and exactly 72 explosion particles spawned for it, each within *)
(* 20 units of the ship's position.                                        *)
C5_ShipHitOutcome ==
    (/\ pc = "first"
     /\ Len(delivered[AsteroidShip]) = 1
     /\ delivered[BulletShip] = <<>>
     /\ delivered[UfoShip] = <<>>) =>
      LET s == delivered[AsteroidShip][1][2]
          q == issued["ship_hit_system"]
      IN  /\ world[s].kind = "Ship"
          /\ world[s].state = "Dead"
          /\ world[s].duration = 2000
          /\ world[s].elapsed = 0
          /\ ParticlesIn(q, s) = 72
          /\ \A k \in 1..Len(q) :
               q[k].op = "spawn_explosions" =>
                 /\ q[k].e = s
                 /\ q[k].ent.pos = world[s].pos
                 /\ \A o \in q[k].comps : 0 <= o /\ o < 20

\* the end of a frame in which exactly one asteroid hit the ship
C5_Witness ==
    /\ pc = "first"
    /\ Len(delivered[AsteroidShip]) = 1
    /\ delivered[BulletShip] = <<>>
    /\ delivered[UfoShip] = <<>>
    /\ ParticlesIn(issued["ship_hit_system"], delivered[AsteroidShip][1][2]) > 0

ShipControls == {"Collidable", "Weapon", "ThrustEngine", "SteeringControl"}

\* a ship hit event was delivered in the frame that just ended
ShipHitThisFrame ==
    \E p \in ShipPairs : delivered[p] # <<>>

C6_WitnessStripped ==
    /\ pc = "react"
    /\ \E s \in Ships : world[s].state = "Dead" /\ world[s].comps \cap ShipControls = {}

(* C7: a ship named by two or more ship hit events of one frame is turned  *)
(* Dead once and gets exactly one 72-particle explosion burst.             *)
C7_OneBurstForManyShipHits ==
    "ship_hit_system" \in ran =>
      \A s \in Ships :
        /\ BurstsOf("ship_hit_system", s) <= 1
        /\ ParticlesIn(issued["ship_hit_system"], s) \in {0, 72}
        /\ Occurrences(issued["ship_hit_system"],
                       LAMBDA c : c.op = "insert_ship" /\ c.e = s) <= 1

(* C8: for every Bullet x Ufo hit event of a frame, the UFO hit reactor    *)
(* despawns the bullet the event names.                                    *)
C8_UfoBulletDespawned ==
    "ufo_hit_system" \in ran =>
      \A k \in 1..Len(bus[BulletUfo].new) :
        DespawnsOf("ufo_hit_system", bus[BulletUfo].new[k][1]) >= 1

(* C9: a UFO named by any number of Bullet x Ufo and Asteroid x Ufo hit    *)
(* events of one frame gets exactly one despawn command and exactly one    *)
(* explosion burst, of 60 particles.                                       *)
C9_UfoDespawnedAndBurstOnce ==
    "ufo_hit_system" \in ran =>
      \A p \in {BulletUfo, AsteroidUfo} : \A k \in 1..Len(bus[p].new) :
        LET ufo == bus[p].new[k][2]
        IN  /\ DespawnsOf("ufo_hit_system", ufo) = 1
            /\ BurstsOf("ufo_hit_system", ufo) = 1
            /\ ParticlesIn(issued["ufo_hit_system"], ufo) = 60

\* one UFO named by a bullet's and by an asteroid's hit event in one frame
C9_Witness ==
    /\ "ufo_hit_system" \in ran
    /\ \E i \in 1..Len(bus[BulletUfo].new), j \in 1..Len(bus[AsteroidUfo].new) :
         bus[BulletUfo].new[i][2] = bus[AsteroidUfo].new[j][2]

\* the reactor that drains a pair's bus
ReactorOf(p) ==
    IF p = BulletAsteroid THEN "asteroid_hit_system"
    ELSE IF p \in ShipPairs THEN "ship_hit_system"
    ELSE "ufo_hit_system"

(* C10: the hit events the detector emits in a frame are what the pair's   *)
(* reactor is delivered in that frame: each exactly once and in detection  *)
(* order, a second drain of the bus within the frame included; once the    *)
(* reactor ran, a further drain yields nothing; and nothing is left over   *)
(* to be delivered in a later frame.                                       *)
C10_DeliveredExactlyOnce ==
    \A p \in Pairs :
      /\ ReactorOf(p) \in ran =>
           /\ delivered[p] = bus[p].new
           /\ EventsRead(bus[p]) = <<>>
      /\ ReactorOf(p) \notin ran =>
           /\ delivered[p] = <<>>
           /\ pc # "react" => EventsRead(bus[p]) = <<>>

\* every reactor ran in a frame with a Bullet x Ufo hit, whose bus is
\* drained twice, and a hit on another bus
C10_Witness ==
    /\ ran = Reactors
    /\ delivered[BulletUfo] # <<>>
    /\ \E p \in Pairs \ {BulletUfo} : delivered[p] # <<>>

(* ======================================================================= *)
(* PostUpdate: boundary_wrap_system, on its own                            *)
(* ======================================================================= *)
\* Query<(&mut Transform, &Bounding), With<BoundaryWrap>>
Wraps(ent) == {"Transform", "Bounding", "BoundaryWrap"} \subseteq ent.comps

\* variant: the entity re-enters at the window's edge, not 2 * radius
\* outside it
WrapAxisAtEdge(c, radius, half) ==
    IF c + radius * 2 < -half THEN half
    ELSE IF c - radius * 2 > half THEN -half
    ELSE c

\* the if / else if on one axis: the coordinate the system leaves
WrapAxis(c, radius, half) ==
    IF c + radius * 2 < -half THEN half + radius * 2
    ELSE IF c - radius * 2 > half THEN -half - radius * 2
    ELSE c

\* the loop body: both axes, one after the other
WrapEntity(ent) ==
    [ent EXCEPT !.pos = <<WrapAxis(ent.pos[1], Radius(ent), HalfWidth),
                          WrapAxis(ent.pos[2], Radius(ent), HalfHeight)>>]

\* a coordinate inside the window, on its edge, on the wrap threshold
\* 2 * radius outside it and one step beyond the threshold, on either side
AxisSamples(radius, half) ==
    {0, half, -half, half + radius * 2, -half - radius * 2,
     half + radius * 2 + 1, -half - radius * 2 - 1}

\* the Alive ship's components (it alone carries BoundaryWrap)
AliveShipComps == (SpawningInsert \cup AliveInsert) \ {"Flick"}

\* a ship and an asteroid (BoundaryRemoval, no BoundaryWrap) anywhere around
\* the window's edges; issued is the log of the translations overwritten
WrapInit ==
    /\ \E sx \in AxisSamples(ShipRadius, HalfWidth),
          sy \in AxisSamples(ShipRadius, HalfHeight),
          ax \in {0, HalfWidth + AsteroidSizes.small.start * 2 + 1} :
         world = [i \in Ids |->
                    IF i = ShipId
                    THEN [ShipAlive(ShipSpawn(0)) EXCEPT
                            !.comps = AliveShipComps, !.pos = <<sx, sy>>,
                            !.radius = ShipRadius]
                    ELSE IF i = ShipId + 1
                    THEN AsteroidEntity(AsteroidSpawnEvent(<<ax, 0>>,
                                                           AsteroidSizes.small.start))
                    ELSE NoEntity]
    /\ bus = [p \in Pairs |-> EmptyEvents]
    /\ spawn_bus = EmptyEvents
    /\ commands = NoCommands
    /\ pc = "post_update"
    /\ ran = {}
    /\ delivered = [p \in Pairs |-> <<>>]
    /\ issued = <<>>
    /\ input = NoInput

RECURSIVE WrapLog(_, _)
\* the entities the query yields, each with its translation before the
\* loop body ran
WrapLog(w, i) ==
    IF i > 1 + MaxEntities THEN <<>>
    ELSE (IF Wraps(w[i]) THEN <<[e |-> i, before |-> w[i].pos]>> ELSE <<>>)
         \o WrapLog(w, i + 1)

boundary_wrap_system ==
    /\ pc = "post_update"
    /\ world' = [i \in Ids |-> IF Wraps(world[i]) THEN WrapEntity(world[i]) ELSE world[i]]
    /\ issued' = WrapLog(world, 1)
    /\ pc' = "wrapped"
    /\ UNCHANGED <<input, bus, spawn_bus, commands, ran, delivered>>

WrapNext == boundary_wrap_system

WrapSpec == WrapInit /\ [][WrapNext]_vars

(* C11, as stated: an entity with the BoundaryWrap tag and radius r whose  *)
(* x exceeds half_width + 2r leaves boundary_wrap_system with x exactly    *)
(* -half_width - 2r and its y unchanged (and one with x below              *)
(* -half_width - 2r with x = half_width + 2r and its y unchanged).         *)
C11_WrapLeavesOtherAxis ==
    pc = "wrapped" =>
      \A k \in 1..Len(issued) :
        LET before == issued[k].before
            after == world[issued[k].e].pos
            r == world[issued[k].e].radius
        IN  /\ before[1] > 400 + 2 * r =>
                 (after[1] = -400 - 2 * r /\ after[2] = before[2])
            /\ before[1] < -400 - 2 * r =>
                 (after[1] = 400 + 2 * r /\ after[2] = before[2])

(* C11, amended: the two axes are wrapped independently. With radius r, an *)
(* x above half_width + 2r becomes exactly -half_width - 2r and an x below *)
(* -half_width - 2r becomes half_width + 2r, any other x is kept; y is     *)
(* handled the same way against half_height, so y is unchanged exactly     *)
(* when y itself is within [-half_height - 2r, half_height + 2r]. Entities *)
(* without the BoundaryWrap tag are not moved.                             *)
C11_WrapPerAxis ==
    [][boundary_wrap_system =>
         \A i \in Ids :
           LET x == world[i].pos[1]
               y == world[i].pos[2]
               r == world[i].radius
           IN  IF {"Transform", "Bounding", "BoundaryWrap"} \subseteq world[i].comps
               THEN /\ world'[i].pos[1] =
                         IF x > 400 + 2 * r THEN -400 - 2 * r
                         ELSE IF x < -400 - 2 * r THEN 400 + 2 * r
                         ELSE x
                    /\ world'[i].pos[2] =
                         IF y > 300 + 2 * r THEN -300 - 2 * r
                         ELSE IF y < -300 - 2 * r THEN 300 + 2 * r
                         ELSE y
               ELSE world'[i] = world[i]]_vars

\* the system ran on a ship that had left on the right with its y inside:
\* it is now 2 * radius outside the left edge, at the same y
C11_Witness ==
    /\ pc = "wrapped"
    /\ \E k \in 1..Len(issued) :
         /\ issued[k].before[1] > 400 + 2 * world[issued[k].e].radius
         /\ issued[k].before[2] = 0
         /\ world[issued[k].e].pos = <<-400 - 2 * world[issued[k].e].radius, 0>>

(* C12: once ship_state_system's commands are applied, a ship in the       *)
(* Spawning state carries neither Collidable nor a Weapon, and carries the *)
(* Flick effect as soon as its countdown has started; a ship in the Alive  *)
(* state carries Collidable and a Weapon and no Flick: the two are         *)
(* attached, and Flick is removed, by the Spawning -> Alive transition.    *)
C12_ArmedExactlyWhenAlive ==
    pc # "sync" =>
      \A s \in Ships :
        /\ world[s].state = "Spawning" =>
             /\ "Collidable" \notin world[s].comps
             /\ "Weapon" \notin world[s].comps
             /\ world[s].elapsed > 0 => "Flick" \in world[s].comps
        /\ world[s].state = "Alive" =>
             /\ {"Collidable", "Weapon"} \subseteq world[s].comps
             /\ "Flick" \notin world[s].comps

\* a respawned ship right after the frame's ship_state_system made it
\* Alive: the system issued only the commands of that transition
C12_Witness ==
    /\ pc = "collision"
    /\ Len(issued["ship_state_system"]) = 2
    /\ issued["ship_state_system"][1].op = "insert"
    /\ issued["ship_state_system"][1].comps = {"Weapon", "Collidable"}
    /\ issued["ship_state_system"][2].op = "remove"
    /\ issued["ship_state_system"][2].comps = {"Flick"}
    /\ \E s \in Ships : world[s].state = "Alive"

(* ======================================================================= *)
(* One frame's detection and asteroid_hit_system, on a crowded screen      *)
(* ======================================================================= *)
\* bullets and asteroids on screen when the frame's detection runs
MaxHitBullets == 2
MaxHitAsteroids == 3

\* a ship that has been Dead for a while: stripped, its countdown running
DeadShip ==
    [ShipDead(ShipSpawn(0), DeadMillis) EXCEPT
        !.comps = AliveShipComps \ DeadStrip, !.radius = ShipRadius,
        !.elapsed = DeadMillis \div 2]

\* the ship, then the bullets, then the asteroids, each bullet and asteroid
\* at any of Positions and each asteroid of any of the spawn radii
HitInit ==
    /\ \E at \in [2..(1 + MaxHitBullets + MaxHitAsteroids) -> Positions],
          radius \in [(2 + MaxHitBullets)..(1 + MaxHitBullets + MaxHitAsteroids)
                        -> AsteroidSpawnRadii] :
         world = [i \in 1..(1 + MaxHitBullets + MaxHitAsteroids) |->
                    IF i = ShipId THEN DeadShip
                    ELSE IF i <= 1 + MaxHitBullets
                    THEN [BulletEntity(DeadShip) EXCEPT !.pos = at[i]]
                    ELSE AsteroidEntity(AsteroidSpawnEvent(at[i], radius[i]))]
    /\ bus = [p \in Pairs |-> EmptyEvents]
    /\ spawn_bus = EmptyEvents
    /\ commands = NoCommands
    /\ pc = "collision"
    /\ ran = {}
    /\ delivered = [p \in Pairs |-> <<>>]
    /\ issued = NoCommands
    /\ input = NoInput

HitNext ==
    \/ collision_system
    \/ asteroid_hit_system

HitSpec == HitInit /\ [][HitNext]_vars

\* the asteroids and bullets the frame's Bullet x Asteroid events name
NamedAsteroids == {delivered[BulletAsteroid][k][2] : k \in 1..Len(delivered[BulletAsteroid])}
NamedBullets == {delivered[BulletAsteroid][k][1] : k \in 1..Len(delivered[BulletAsteroid])}

\* how many of the frame's Bullet x Asteroid events name an asteroid
EventsNaming(a) ==
    Occurrences(delivered[BulletAsteroid], LAMBDA h : h[2] = a)

RECURSIVE RequestsOfOneReactionEach(_)
\* the spawn requests of one reaction to each asteroid of a set
RequestsOfOneReactionEach(S) ==
    IF S = {} THEN 0
    ELSE LET a == CHOOSE y \in S : TRUE
         IN  Len(SplitEvents(world[a].pos, world[a].radius, 0, 0))
             + RequestsOfOneReactionEach(S \ {a})

C14_ShipStateCycle ==
    [][\A s \in Ids :
         (world[s].kind = "Ship" /\ world'[s].kind = "Ship") =>
           LET a == world[s]
               b == world'[s]
               Expires == \E dt \in Deltas : a.elapsed + dt >= a.duration
           IN  (a.state # b.state \/ a.duration # b.duration \/ b.elapsed < a.elapsed) =>
                 \/ /\ a.state = "Alive" /\ b.state = "Dead"
                    /\ b.duration = 2000 /\ b.elapsed = 0
                    /\ pc = "end"
                    /\ \E p \in ShipPairs : \E k \in 1..Len(delivered[p]) :
                         delivered[p][k][2] = s
                 \/ /\ a.state = "Dead" /\ b.state = "Spawning"
                    /\ b.duration = 2000 /\ b.elapsed = 0
                    /\ pc = "ship_state" /\ Expires
                 \/ /\ a.state = "Spawning" /\ b.state = "Alive"
                    /\ pc = "ship_state" /\ Expires]_vars

\* a ship that died and is half-way through its Spawning countdown
C14_Witness ==
    \E s \in Ships :
      /\ world[s].state = "Spawning"
      /\ world[s].duration = 2000
      /\ world[s].elapsed > 0
      /\ world[s].elapsed < 2000

(* ======================================================================= *)
(* The ship's life cycle under frames of positive elapsed time             *)
(* ======================================================================= *)
\* after setup_system and some play: the ship as spawned at start-up, and
\* one asteroid on screen, of any of the spawn radii
LifeInit ==
    /\ \E at \in Positions, radius \in AsteroidSpawnRadii :
         world = [i \in Ids |->
                    IF i = ShipId THEN ShipSpawn(0)
                    ELSE IF i = ShipId + 1
                    THEN AsteroidEntity(AsteroidSpawnEvent(at, radius))
                    ELSE NoEntity]
    /\ bus = [p \in Pairs |-> EmptyEvents]
    /\ spawn_bus = EmptyEvents
    /\ commands = NoCommands
    /\ pc = "first"
    /\ ran = {}
    /\ delivered = [p \in Pairs |-> <<>>]
    /\ issued = NoCommands
    /\ input = NoInput

\* ship_state_system in a frame whose Time::delta is positive
ship_state_positive ==
    /\ ship_state_system
    /\ \E delta \in Deltas \ {0} : ShipStateSystem(delta)

\* the spawners in a frame where no timer or random draw lets them spawn
\* and no weapon fires
asteroid_spawn_quiet == asteroid_spawn_system /\ UNCHANGED spawn_bus
weapon_quiet == weapon_system /\ UNCHANGED commands
ufo_spawn_quiet == ufo_spawn_system /\ UNCHANGED commands

LifeNext ==
    \/ First
    \/ movement_system
    \/ ship_state_positive
    \/ apply_deferred
    \/ collision_system
    \/ asteroid_hit_system
    \/ ship_hit_system
    \/ ufo_hit_system
    \/ asteroid_spawn_quiet
    \/ asteroid_generation_system
    \/ weapon_quiet
    \/ ufo_spawn_quiet

\* the App keeps running its schedules
LifeSpec == LifeInit /\ [][LifeNext]_vars /\ WF_vars(LifeNext)

(* C15: while frames keep being stepped with positive elapsed time, a ship *)
(* that is not Alive, whether Dead after a hit, Spawning after that, or in *)
(* the Spawning(0 s) state of start-up, eventually is Alive again, and     *)
(* then carries Collidable and a Weapon.                                   *)
C15_ShipRespawns ==
    (world[ShipId].state # "Alive")
      ~> (/\ world[ShipId].state = "Alive"
          /\ {"Collidable", "Weapon"} \subseteq world[ShipId].comps)

\* a ship that died and is Alive and armed again: the run of
\* ship_state_system that made it Alive issued only that transition's
\* commands, the start-up's issues the Spawning arm's insert as well
C15_Witness ==
    /\ pc = "collision"
    /\ world[ShipId].state = "Alive"
    /\ {"Collidable", "Weapon"} \subseteq world[ShipId].comps
    /\ Len(issued["ship_state_system"]) = 2

(* ======================================================================= *)
(* UFO and weapon frame: weapon_control_system, weapon_system with its     *)
(* cooldown, ufo_state_system, over one ship and one UFO.  world maps the  *)
(* two entities to records that also carry Velocity (vel), Weapon (weapon) *)
(* and WeaponTarget (target); commands and issued are flat sequences.      *)
(* ======================================================================= *)
UfoId == 2

\* rng.gen_range of the UFO's countdowns and rate of fire
UfoSpawnAliveSecs == [start |-> 1, end |-> 5]
UfoAliveSecs == [start |-> 4, end |-> 8]
UfoChangingMillis == [start |-> 1000, end |-> 2000]
UfoRateMillis == [start |-> 1000, end |-> 3000]

\* two draws of the rate of fire, multiples of the frame time so that the
\* repeating cooldown's elapsed time recurs
UfoRatesOfFire == {UfoRateMillis.start, 2 * UfoRateMillis.start}

\* y of a spawned UFO, within -h..h: below, on and above the centerline
UfoHeights == {-100, 0, 100}

\* Weapon::new(rate_of_fire): a Repeating cooldown, triggered and automatic
\* false
WeaponNew(rate) ==
    [elapsed |-> 0, duration |-> rate, triggered |-> FALSE, automatic |-> FALSE]

\* the Weapon ufo_spawn_system inserts
UfoWeapon(rate) ==
    [WeaponNew(rate) EXCEPT !.triggered = TRUE, !.automatic = TRUE]

\* the entity has no Weapon component
NoWeapon == WeaponNew(0)

\* the ship as setup_system spawns it, without Velocity, Weapon, WeaponTarget
UfoFrameShip ==
    [kind |-> "Ship", comps |-> {}, pos |-> Origin, radius |-> 0,
     state |-> "Spawning", elapsed |-> 0, duration |-> 0,
     vel |-> <<0, 0>>, weapon |-> NoWeapon, target |-> 0]

\* the UFO as ufo_spawn_system spawns it on the left edge: Ufo::alive of
\* 1..5 s, velocity along x only, WeaponTarget any ship there is
UfoSpawned(y, secs, rate) ==
    [kind |-> "Ufo", comps |-> UfoComps \cup {"WeaponTarget"},
     pos |-> <<-HalfWidth - UfoSize, y>>, radius |-> UfoSize \div 2,
     state |-> "Alive", elapsed |-> 0, duration |-> secs * 1000,
     vel |-> <<100, 0>>, weapon |-> UfoWeapon(rate), target |-> ShipId]

UfoInit ==
    /\ \E y \in UfoHeights, secs \in GenRange(UfoSpawnAliveSecs), rate \in UfoRatesOfFire :
         world = (ShipId :> UfoFrameShip) @@ (UfoId :> UfoSpawned(y, secs, rate))
    /\ bus = [p \in Pairs |-> EmptyEvents]
    /\ spawn_bus = EmptyEvents
    /\ commands = <<>>
    /\ pc = "first"
    /\ ran = {}
    /\ delivered = [p \in Pairs |-> <<>>]
    /\ issued = <<>>
    /\ input = NoInput

\* what the frame's systems read: time.delta(), pressed(Space) and
\* just_pressed(Space)
Inputs ==
    {i \in [delta : Deltas, pressed : BOOLEAN, just_pressed : BOOLEAN] :
       i.just_pressed => i.pressed}

\* the frame begins: Time and ButtonInput are updated
frame_input ==
    /\ pc = "first"
    /\ input' \in Inputs
    /\ ran' = {}
    /\ issued' = <<>>
    /\ pc' = "fixed_update"
    /\ UNCHANGED <<world, bus, spawn_bus, commands, delivered>>

\* translation += velocity * time_step over the frame's time, y only (x
\* plays no part in the UFO's states)
MoveY(ent, dt) ==
    [ent EXCEPT !.pos = <<@[1], @[2] + (ent.vel[2] * dt) \div 1000>>]

ufo_movement_system ==
    /\ pc = "fixed_update"
    /\ world' = [i \in DOMAIN world |->
                   IF "Velocity" \in world[i].comps THEN MoveY(world[i], input.delta)
                   ELSE world[i]]
    /\ pc' = "ship_state"
    /\ UNCHANGED <<bus, spawn_bus, commands, ran, delivered, issued, input>>

\* the ship after ship_state_system and the sync point that follows it; the
\* insert of Weapon::new(100 ms) gives the Weapon its value
ShipSynced(w, dt) ==
    LET stepped == [w EXCEPT ![ShipId] = ShipStateStep(@, dt)]
        synced == ApplyQueue(stepped, ShipStateCommands(ShipId, w[ShipId], dt))
    IN  [synced EXCEPT ![ShipId].weapon =
           IF "Weapon" \notin synced[ShipId].comps THEN NoWeapon
           ELSE IF "Weapon" \notin w[ShipId].comps THEN WeaponNew(100)
           ELSE @]

ship_state_synced ==
    /\ pc = "ship_state"
    /\ world' = ShipSynced(world, input.delta)
    /\ pc' = "update"
    /\ UNCHANGED <<bus, spawn_bus, commands, ran, delivered, issued, input>>

(* ------------------------ weapon_control_system ----------------------- *)
\* the loop body over Query<&mut Weapon>
WeaponControl(weapon, inp) ==
    [weapon EXCEPT !.triggered =
       @ \/ (IF weapon.automatic THEN inp.pressed ELSE inp.just_pressed)]

weapon_control_system ==
    /\ pc = "update"
    /\ "weapon_control_system" \notin ran
    /\ world' = [i \in DOMAIN world |->
                   IF "Weapon" \in world[i].comps
                   THEN [world[i] EXCEPT !.weapon = WeaponControl(@, input)]
                   ELSE world[i]]
    /\ ran' = ran \cup {"weapon_control_system"}
    /\ UNCHANGED <<bus, spawn_bus, commands, pc, delivered, issued, input>>

(* --------------------- weapon_system, with cooldown ------------------- *)
\* Timer::tick for TimerMode::Repeating: elapsed wraps when it reaches the
\* duration
CooldownTick(weapon, dt) ==
    IF weapon.elapsed + dt >= weapon.duration
    THEN (IF weapon.duration = 0 THEN 0 ELSE (weapon.elapsed + dt) % weapon.duration)
    ELSE weapon.elapsed + dt

\* Timer::finished after that tick
CooldownFinished(weapon, dt) == weapon.elapsed + dt >= weapon.duration

\* variant: a shot needs no trigger
FiresUntriggered(weapon, dt) == CooldownFinished(weapon, dt)

\* weapon.cooldown.finished() && weapon.triggered
Fires(weapon, dt) == CooldownFinished(weapon, dt) /\ weapon.triggered

\* the Weapon after the loop body
WeaponStep(weapon, dt) ==
    [weapon EXCEPT !.elapsed = CooldownTick(weapon, dt),
                   !.triggered = IF Fires(weapon, dt) THEN FALSE ELSE @]

\* commands.spawn of the bullet, e naming the entity that shot
SpawnBullet(e, ent) == Cmd("spawn", e, 1, {}, BulletEntity(ent))

RECURSIVE CooldownLoop(_, _, _)
\* the loop over the query, entities in id order
CooldownLoop(w, dt, i) ==
    IF i \notin DOMAIN w THEN <<>>
    ELSE (IF HasWeapon(w[i]) /\ Fires(w[i].weapon, dt)
          THEN <<SpawnBullet(i, w[i])>> ELSE <<>>)
         \o CooldownLoop(w, dt, i + 1)

weapon_cooldown_system ==
    /\ pc = "update"
    /\ "weapon_control_system" \in ran
    /\ "weapon_system" \notin ran
    /\ world' = [i \in DOMAIN world |->
                   IF HasWeapon(world[i])
                   THEN [world[i] EXCEPT !.weapon = WeaponStep(@, input.delta)]
                   ELSE world[i]]
    /\ commands' = commands \o CooldownLoop(world, input.delta, 1)
    /\ issued' = issued \o CooldownLoop(world, input.delta, 1)
    /\ ran' = ran \cup {"weapon_system"}
    /\ UNCHANGED <<bus, spawn_bus, pc, delivered, input>>

(* --------------------------- ufo_state_system ------------------------- *)
\* variant: the countdown is never consulted
UfoTimerAlwaysFinished(ent, dt) == TRUE

\* timer.tick(time.delta()); timer.finished()
UfoTimerFinished(ent, dt) == TimerFinished(TimerTick(ent, dt), ent.duration)

\* variant: away from the centerline
UfoTurnAway(ent) == IF ent.pos[2] > 0 THEN 100 ELSE -100

\* velocity.y the ChangingDirection arm sets while the timer's elapsed time
\* is zero
UfoTurn(ent) == IF ent.pos[2] > 0 THEN -100 ELSE 100

\* Ufo::alive(d), Ufo::changing_direction(d) as the Ufo component's value
UfoAlive(ent, d) == [ent EXCEPT !.state = "Alive", !.elapsed = 0, !.duration = d]
UfoChangingDirection(ent, d) ==
    [ent EXCEPT !.state = "ChangingDirection", !.elapsed = 0, !.duration = d]

\* the match on ufo.state, for the draws changing (ms) and alive (s)
UfoStateStep(ent, dt, changing, alive) ==
    CASE ent.state = "Alive" ->
           IF UfoTimerFinished(ent, dt)
           THEN UfoChangingDirection(ent, changing)
           ELSE [ent EXCEPT !.elapsed = TimerTick(ent, dt)]
      [] ent.state = "ChangingDirection" ->
           LET turned == IF ent.elapsed = 0
                         THEN [ent EXCEPT !.vel = <<@[1], UfoTurn(ent)>>]
                         ELSE ent
           IN  IF UfoTimerFinished(ent, dt)
               THEN UfoAlive([turned EXCEPT !.vel = <<@[1], 0>>], alive * 1000)
               ELSE [turned EXCEPT !.elapsed = TimerTick(ent, dt)]
      [] OTHER -> ent

\* ships.iter().filter_map(..): the ships in the Alive state
AliveShips(w) == {i \in DOMAIN w : w[i].kind = "Ship" /\ w[i].state = "Alive"}

\* alive_ships.choose(rng): Some of any element, None (0) of an empty slice
Choose(S) == IF S = {} THEN {0} ELSE S

\* variant: the trigger is left as it was when no ship is alive
RetargetKeepsTrigger(weapon, ship) ==
    [weapon EXCEPT !.triggered = IF ship # 0 THEN TRUE ELSE @]

\* weapon.triggered after the if let on the chosen ship
Retarget(weapon, ship) == [weapon EXCEPT !.triggered = (ship # 0)]

InsertTarget(e, ship) == Cmd("insert_target", e, ship, {"WeaponTarget"}, NoEntity)

\* the command of the if let on the chosen ship
RetargetCommand(e, ship) ==
    IF ship # 0 THEN InsertTarget(e, ship) ELSE Remove(e, {"WeaponTarget"})

\* the loop body for the one UFO
ufo_state_system ==
    /\ pc = "update"
    /\ "ufo_state_system" \notin ran
    /\ \E changing \in GenRange(UfoChangingMillis), alive \in GenRange(UfoAliveSecs),
          ship \in Choose(AliveShips(world)) :
         /\ world' = [i \in DOMAIN world |->
                        IF world[i].kind = "Ufo"
                        THEN [UfoStateStep(world[i], input.delta, changing, alive)
                                EXCEPT !.weapon = Retarget(@, ship)]
                        ELSE world[i]]
         /\ commands' = commands \o <<RetargetCommand(UfoId, ship)>>
         /\ issued' = issued \o <<RetargetCommand(UfoId, ship)>>
    /\ ran' = ran \cup {"ufo_state_system"}
    /\ UNCHANGED <<bus, spawn_bus, pc, delivered, input>>

(* ------------------------------ frame end ----------------------------- *)
UfoFrameSystems == {"weapon_control_system", "weapon_system", "ufo_state_system"}

\* one command of the frame applied: WeaponTarget inserted or removed;
\* bullets leave this world
UfoApplyCommand(w, c) ==
    CASE c.op = "insert_target" ->
           [w EXCEPT ![c.e].comps = @ \cup c.comps, ![c.e].target = c.n]
      [] c.op = "remove" ->
           [w EXCEPT ![c.e].comps = @ \ c.comps,
                     ![c.e].target = IF "WeaponTarget" \in c.comps THEN 0 ELSE @]
      [] OTHER -> w

RECURSIVE UfoApplyQueue(_, _)
UfoApplyQueue(w, q) ==
    IF q = <<>> THEN w ELSE UfoApplyQueue(UfoApplyCommand(w, Head(q)), Tail(q))

\* the sync point once the three systems ran
ufo_apply_deferred ==
    /\ pc = "update"
    /\ ran = UfoFrameSystems
    /\ world' = UfoApplyQueue(world, commands)
    /\ commands' = <<>>
    /\ pc' = "end"
    /\ UNCHANGED <<bus, spawn_bus, ran, delivered, issued, input>>

\* the rest of the frame: ship_hit_system may have found the Alive ship hit,
\* its insert(Ship::dead(2 s)) applied at the end of Update
ufo_frame_end ==
    /\ pc = "end"
    /\ \/ UNCHANGED world
       \/ /\ world[ShipId].state = "Alive"
          /\ world' = [world EXCEPT ![ShipId] = ShipDead(@, DeadMillis)]
    /\ pc' = "first"
    /\ UNCHANGED <<bus, spawn_bus, commands, ran, delivered, issued, input>>

UfoNext ==
    \/ frame_input
    \/ ufo_movement_system
    \/ ship_state_synced
    \/ weapon_control_system
    \/ weapon_cooldown_system
    \/ ufo_state_system
    \/ ufo_apply_deferred
    \/ ufo_frame_end

UfoSpec == UfoInit /\ [][UfoNext]_vars

(* ----------------------------------------------------------------------- *)
\* C16: the UFO's state only ever changes Alive -> ChangingDirection ->
\* Alive -> ..., each change made by a tick of ufo_state_system on which the
\* current countdown expires (and every such tick makes the change); the
\* ChangingDirection countdown it starts lasts 1000 ms or more and less
\* than 2000 ms, the Alive countdown it starts 4 s or more and less than
\* 8 s, both from zero; a tick that does not expire the countdown only
\* advances it.
C16_UfoStateAlternates ==
    [][LET u == world[UfoId]
           v == world'[UfoId]
           ticked == "ufo_state_system" \in ran' \ ran
           expires == u.elapsed + input.delta >= u.duration
       IN  /\ v.state \in {"Alive", "ChangingDirection"}
           /\ (v.state # u.state) =>
                /\ ticked
                /\ expires
                /\ v.elapsed = 0
                /\ (u.state = "Alive") =>
                     /\ v.state = "ChangingDirection"
                     /\ 1000 <= v.duration /\ v.duration < 2000
                /\ (u.state = "ChangingDirection") =>
                     /\ v.state = "Alive"
                     /\ 4000 <= v.duration /\ v.duration < 8000
           /\ (ticked /\ expires) => v.state # u.state
           /\ (v.state = u.state) =>
                /\ v.duration = u.duration
                /\ v.elapsed = IF ticked THEN u.elapsed + input.delta ELSE u.elapsed
      ]_vars

\* a UFO back in Alive on a countdown that only ufo_state_system starts,
\* part of it run
C16_Witness ==
    /\ world[UfoId].state = "Alive"
    /\ world[UfoId].duration > 1000 * (UfoSpawnAliveSecs.end - 1)
    /\ world[UfoId].elapsed > 0
    /\ DOMAIN world = {ShipId, UfoId}

(* ----------------------------------------------------------------------- *)
\* the UFO's tick of this frame ran with ChangingDirection's timer at zero
\* and left the UFO in ChangingDirection: the tick that set velocity.y
UfoTurnedThisTick ==
    /\ pc = "update"
    /\ "ufo_state_system" \in ran
    /\ world[UfoId].state = "ChangingDirection"
    /\ world[UfoId].elapsed = input.delta

\* C17 as stated: the vertical velocity set in ChangingDirection carries
\* the UFO away from the centerline y = 0 (up when above it, down when
\* below it), and a UFO in the Alive state has zero vertical velocity.
C17_TurnsAwayFromCenterline ==
    LET u == world[UfoId]
    IN  /\ UfoTurnedThisTick =>
             /\ (u.pos[2] > 0) => u.vel[2] > 0
             /\ (u.pos[2] < 0) => u.vel[2] < 0
        /\ (u.state = "Alive") => u.vel[2] = 0

\* C17, amended: the tick of ufo_state_system that finds the UFO in
\* ChangingDirection with its countdown at zero, and does not end the
\* countdown, sets the vertical velocity to -100 when the UFO is above the
\* centerline and to +100 when it is on or below it (toward the centerline);
\* the tick that enters ChangingDirection leaves the velocity as it was; a
\* UFO in the Alive state has zero vertical velocity; no other step changes
\* the velocity.
C17_TurnsTowardCenterline ==
    [][LET u == world[UfoId]
           v == world'[UfoId]
           ticked == "ufo_state_system" \in ran' \ ran
       IN  /\ (v.state = "Alive") => v.vel[2] = 0
           /\ (ticked /\ u.state = "ChangingDirection" /\ v.state = "ChangingDirection") =>
                v.vel[2] = IF u.elapsed = 0
                           THEN (IF u.pos[2] > 0 THEN -100 ELSE 100)
                           ELSE u.vel[2]
           /\ (ticked /\ u.state = "Alive") => v.vel = u.vel
           /\ ~ticked => v.vel = u.vel
           /\ v.vel[1] = u.vel[1]
      ]_vars

\* a UFO above the centerline that the tick has just sent downwards
C17_Witness ==
    /\ UfoTurnedThisTick
    /\ world[UfoId].pos[2] > 0
    /\ world[UfoId].vel[2] = -100

C19_NoUfoShotWithoutAliveShip ==
    (pc \in {"update", "end"} /\ AliveShips(world) = {}) =>
        \A k \in 1..Len(issued) :
            ~(issued[k].op = "spawn" /\ issued[k].e = UfoId)

(* ----------------------------------------------------------------------- *)
\* the bullets entity e shot among the commands q
ShotsOf(q, e) ==
    Cardinality({k \in 1..Len(q) : q[k].op = "spawn" /\ q[k].e = e})

\* C20: a run of weapon_system advances the cooldown of every Weapon by the
\* frame's delta (wrapping at the rate of fire) whether or not the weapon is
\* triggered; it spawns one bullet for a weapon exactly when that tick ends
\* the cooldown and triggered is set, and then leaves triggered false;
\* otherwise it spawns none and leaves triggered as it was.  No weapon has
\* more than one bullet spawned in a frame.
C20_WeaponFiringRule ==
    [][/\ \A i \in DOMAIN world' : ShotsOf(issued', i) <= 1
       /\ ("weapon_system" \in ran' \ ran) =>
            \A i \in {j \in DOMAIN world : "Weapon" \in world[j].comps} :
                LET before == world[i].weapon
                    after == world'[i].weapon
                    ends == before.elapsed + input.delta >= before.duration
                    shots == ShotsOf(issued', i) - ShotsOf(issued, i)
                IN  /\ after.elapsed = IF ends
                                       THEN (before.elapsed + input.delta) % before.duration
                                       ELSE before.elapsed + input.delta
                    /\ after.duration = before.duration
                    /\ shots = IF ends /\ before.triggered THEN 1 ELSE 0
                    /\ (shots = 1) => ~after.triggered
                    /\ (shots = 0) => after.triggered = before.triggered
      ]_vars

\* weapon_system ran: the UFO's weapon shot and is no longer triggered,
\* while the ship's untriggered weapon has its cooldown advanced and did not
\* shoot
C20_Witness ==
    /\ pc = "update"
    /\ "weapon_system" \in ran
    /\ input.delta > 0
    /\ ShotsOf(issued, UfoId) = 1
    /\ ~world[UfoId].weapon.triggered
    /\ "Weapon" \in world[ShipId].comps
    /\ ShotsOf(issued, ShipId) = 0
    /\ ~world[ShipId].weapon.triggered

(* ----------------------------------------------------------------------- *)
\* C21: the ship's weapon (not automatic) is a latch that a shot clears: its
\* triggered is false once it has shot in the frame; the UFO's weapon
\* (automatic) does not shoot in a frame in which neither of its sources
\* asks for fire: no ship is in the Alive state and the fire key is not
\* pressed.
C21_TriggerByMode ==
    (pc \in {"update", "end"}) =>
        /\ (ShotsOf(issued, ShipId) > 0 /\ "Weapon" \in world[ShipId].comps) =>
               ~world[ShipId].weapon.triggered
        /\ (AliveShips(world) = {} /\ ~input.pressed) => ShotsOf(issued, UfoId) = 0

(* ======================================================================= *)
(* PostUpdate with f32 arithmetic: boundary_remove_system and              *)
(* boundary_wrap_system on translations and radii held as f32 values, in   *)
(* units of 2^-18 pixel (the f32 spacing of a radius in 32..64); commands  *)
(* and issued are flat sequences, issued the log of the run.               *)
(* ======================================================================= *)
F32Scale == 262144
MaxBoundaryLog == 3

\* the spacing of f32 values around v (24-bit significand), |v| < 1024 px
F32Ulp(v) ==
    LET a == IF v < 0 THEN -v ELSE v
    IN  IF a < 64 * F32Scale THEN 1
        ELSE IF a < 128 * F32Scale THEN 2
        ELSE IF a < 256 * F32Scale THEN 4
        ELSE IF a < 512 * F32Scale THEN 8
        ELSE 16

\* the f32 result of an operation whose exact result is v: round to
\* nearest, ties to even
F32(v) ==
    LET u == F32Ulp(v)
        q == v \div u
        rest == v - q * u
    IN  IF 2 * rest < u THEN q * u
        ELSE IF 2 * rest > u THEN (q + 1) * u
        ELSE IF q % 2 = 0 THEN q * u ELSE (q + 1) * u

\* variant: the exit test with a margin of one radius
ExitsAxisOneRadius(c, radius, half) ==
    F32(c + radius) < -half \/ F32(c - radius) > half

\* x + radius.0 * 2.0 < -half_width || x - radius.0 * 2.0 > half_width
ExitsAxis(c, radius, half) ==
    F32(c + radius * 2) < -half \/ F32(c - radius * 2) > half

\* variant: the wrapped coordinate lands one step beyond the threshold
WrapAxisF32Beyond(c, radius, half) ==
    IF F32(c + radius * 2) < -half THEN F32(half + radius * 2) + 16
    ELSE IF F32(c - radius * 2) > half THEN F32(-half - radius * 2) - 16
    ELSE c

\* boundary_wrap_system's if / else if on one axis
WrapAxisF32(c, radius, half) ==
    IF F32(c + radius * 2) < -half THEN F32(half + radius * 2)
    ELSE IF F32(c - radius * 2) > half THEN F32(-half - radius * 2)
    ELSE c

\* if x > 0.0 { w + c } else { -w - c } with c = radius * 2.0
SpawnEdge(c, radius, half) ==
    IF c > 0 THEN F32(half + radius * 2) ELSE F32(-half - radius * 2)

\* what asteroid_spawn_system and ufo_spawn_system may request: an asteroid
\* of each size, whole and fractional radii, on any edge, and a UFO on
\* either side
OffscreenSpawns ==
    {AsteroidEntity(AsteroidSpawnEvent(
         IF d.horizontal
         THEN <<d.x, SpawnEdge(d.y, radius, HalfHeight * F32Scale)>>
         ELSE <<SpawnEdge(d.x, radius, HalfWidth * F32Scale), d.y>>,
         radius)) :
       d \in {[x |-> e.x * F32Scale, y |-> e.y * F32Scale, horizontal |-> h] :
                e \in EdgeDraws, h \in BOOLEAN},
       radius \in {r * F32Scale + f : r \in AsteroidSpawnRadii, f \in {0, 5}}}
    \cup
    {[UfoEntity(right, 0) EXCEPT
        !.pos = <<SpawnEdge(IF right THEN 1 ELSE -1, (UfoSize \div 2) * F32Scale,
                            HalfWidth * F32Scale),
                  y * ((WindowHeight * 8) \div 20) * F32Scale>>,
        !.radius = (UfoSize \div 2) * F32Scale] :
       right \in BOOLEAN, y \in {-1, 0}}

\* a coordinate inside the window, on its edge, on the exit threshold and
\* one f32 step (of the 512..1024 range) beyond it, on either side
BoundarySamples(radius, half) ==
    {0, half, -half, half + radius * 2, -half - radius * 2,
     half + radius * 2 + 16, -half - radius * 2 - 16}

\* the ship (BoundaryWrap) anywhere around the window, a bullet
\* (BoundaryRemoval) anywhere along either axis
BoundaryInit ==
    /\ \E sx \in BoundarySamples(ShipRadius * F32Scale, HalfWidth * F32Scale),
          sy \in BoundarySamples(ShipRadius * F32Scale, HalfHeight * F32Scale),
          b \in {<<bx, 0>> : bx \in BoundarySamples(BulletRadius * F32Scale, HalfWidth * F32Scale)}
                \cup {<<0, by>> : by \in BoundarySamples(BulletRadius * F32Scale, HalfHeight * F32Scale)} :
         world = [i \in 1..3 |->
                    IF i = ShipId
                    THEN [ShipAlive(ShipSpawn(0)) EXCEPT
                            !.comps = AliveShipComps, !.pos = <<sx, sy>>,
                            !.radius = ShipRadius * F32Scale]
                    ELSE IF i = ShipId + 1
                    THEN [NoEntity EXCEPT !.kind = "Bullet", !.comps = BulletComps,
                                          !.pos = b, !.radius = BulletRadius * F32Scale]
                    ELSE NoEntity]
    /\ bus = [p \in Pairs |-> EmptyEvents]
    /\ spawn_bus = EmptyEvents
    /\ commands = <<>>
    /\ pc = "update"
    /\ ran = {}
    /\ delivered = [p \in Pairs |-> <<>>]
    /\ issued = <<>>
    /\ input = NoInput

\* Update: a spawner's entity appears, its commands applied, or none does
offscreen_spawn ==
    /\ pc = "update"
    /\ Len(issued) < MaxBoundaryLog
    /\ \/ UNCHANGED <<world, issued>>
       \/ /\ world[3].kind = "None"
          /\ \E ent \in OffscreenSpawns :
               /\ world' = [world EXCEPT ![3] = ent]
               /\ issued' = issued \o <<Cmd("spawn", 3, 1, {}, ent)>>
    /\ pc' = "post_update"
    /\ UNCHANGED <<bus, spawn_bus, commands, ran, delivered, input>>

\* the despawns of the loop over
\* Query<(Entity, &Transform, &Bounding), With<BoundaryRemoval>>
boundary_remove_system ==
    /\ pc = "post_update"
    /\ "boundary_remove_system" \notin ran
    /\ commands' = commands \o
         SelectSeq([i \in 1..3 |-> Despawn(i)],
                   LAMBDA c :
                     /\ {"Transform", "Bounding", "BoundaryRemoval"} \subseteq world[c.e].comps
                     /\ \/ ExitsAxis(world[c.e].pos[1], Radius(world[c.e]), HalfWidth * F32Scale)
                        \/ ExitsAxis(world[c.e].pos[2], Radius(world[c.e]), HalfHeight * F32Scale))
    /\ ran' = ran \cup {"boundary_remove_system"}
    /\ UNCHANGED <<world, bus, spawn_bus, pc, delivered, issued, input>>

\* boundary_wrap_system; issued logs each entity it looped over as it was
boundary_wrap_f32 ==
    /\ pc = "post_update"
    /\ "boundary_wrap_system" \notin ran
    /\ world' = [i \in 1..3 |->
                   IF Wraps(world[i])
                   THEN [world[i] EXCEPT !.pos =
                           <<WrapAxisF32(@[1], Radius(world[i]), HalfWidth * F32Scale),
                             WrapAxisF32(@[2], Radius(world[i]), HalfHeight * F32Scale)>>]
                   ELSE world[i]]
    /\ issued' = issued \o
         SelectSeq([i \in 1..3 |-> Cmd("wrap", i, 1, {}, world[i])],
                   LAMBDA c : Wraps(c.ent))
    /\ ran' = ran \cup {"boundary_wrap_system"}
    /\ UNCHANGED <<bus, spawn_bus, commands, pc, delivered, input>>

\* the end of PostUpdate: the despawns are applied; the next frame begins
\* with nothing moved
boundary_apply_deferred ==
    /\ pc = "post_update"
    /\ ran = {"boundary_remove_system", "boundary_wrap_system"}
    /\ world' = ApplyQueue(world, commands)
    /\ commands' = <<>>
    /\ ran' = {}
    /\ pc' = "update"
    /\ UNCHANGED <<bus, spawn_bus, delivered, issued, input>>

BoundaryNext ==
    \/ offscreen_spawn
    \/ boundary_remove_system
    \/ boundary_wrap_f32
    \/ boundary_apply_deferred

BoundarySpec == BoundaryInit /\ [][BoundaryNext]_vars

(* ----------------------------------------------------------------------- *)
\* the exit test of an entity as the program's f32 arithmetic evaluates it
ExitTest(ent) ==
    LET x == ent.pos[1]
        y == ent.pos[2]
        r == ent.radius
    IN  \/ F32(x + 2 * r) < -400 * F32Scale \/ F32(x - 2 * r) > 400 * F32Scale
        \/ F32(y + 2 * r) < -300 * F32Scale \/ F32(y - 2 * r) > 300 * F32Scale

\* both coordinates within the thresholds, one of them exactly on one
OnThreshold(ent) ==
    LET ax == IF ent.pos[1] < 0 THEN -ent.pos[1] ELSE ent.pos[1]
        ay == IF ent.pos[2] < 0 THEN -ent.pos[2] ELSE ent.pos[2]
    IN  /\ ax <= 400 * F32Scale + 2 * ent.radius
        /\ ay <= 300 * F32Scale + 2 * ent.radius
        /\ ax = 400 * F32Scale + 2 * ent.radius \/ ay = 300 * F32Scale + 2 * ent.radius

\* C22: a run of boundary_remove_system issues a despawn for an entity
\* exactly when the entity carries BoundaryRemoval (with Transform and
\* Bounding) and, on at least one axis, position + 2 * radius < -half_extent
\* or position - 2 * radius > half_extent; a run of boundary_wrap_system
\* changes a coordinate of a BoundaryWrap entity exactly under the same
\* test; an entity exactly half_extent + 2 * radius away on an axis, and not
\* farther on the other, is neither removed nor moved.
C22_RemoveSameTestAsWrap ==
    [][/\ ("boundary_remove_system" \in ran' \ ran) =>
            \A i \in 1..3 :
              LET new == SubSeq(commands', Len(commands) + 1, Len(commands'))
                  hit == \E k \in 1..Len(new) : new[k] = Despawn(i)
              IN  /\ hit <=> /\ {"Transform", "Bounding", "BoundaryRemoval"}
                                    \subseteq world[i].comps
                             /\ ExitTest(world[i])
                  /\ OnThreshold(world[i]) => ~hit
       /\ ("boundary_wrap_system" \in ran' \ ran) =>
            \A i \in 1..3 :
              /\ (world'[i].pos # world[i].pos) <=>
                     /\ {"Transform", "Bounding", "BoundaryWrap"} \subseteq world[i].comps
                     /\ ExitTest(world[i])
              /\ OnThreshold(world[i]) => world'[i] = world[i]
      ]_vars

\* boundary_remove_system despawned the bullet one step beyond the right
\* threshold while the ship sat exactly on it, and boundary_wrap_system left
\* the ship where it was
C22_Witness ==
    /\ pc = "post_update"
    /\ ran = {"boundary_remove_system", "boundary_wrap_system"}
    /\ commands = <<Despawn(ShipId + 1)>>
    /\ world[ShipId + 1].pos = <<(400 + 2 * BulletRadius) * F32Scale + 16, 0>>
    /\ world[ShipId].pos = <<(400 + 2 * ShipRadius) * F32Scale, 0>>
    /\ issued # <<>>
    /\ issued[Len(issued)].ent.pos = world[ShipId].pos

(* ======================================================================= *)
(* The frame with asteroid_generation_system on either side of the systems *)
(* that send AsteroidSpawnEvent: main orders it after none of them.        *)
(* ======================================================================= *)
\* asteroid_generation_system run before asteroid_spawn_system
asteroid_generation_early ==
    /\ pc = "asteroid_spawn"
    /\ "asteroid_generation_system" \notin ran
    /\ LET out == GenerationLoop(EventsRead(spawn_bus), Room("Asteroid", MaxAsteroids))
       IN  /\ commands' = [commands EXCEPT !["asteroid_generation_system"] = @ \o out]
           /\ issued' = [issued EXCEPT !["asteroid_generation_system"] = @ \o out]
    /\ spawn_bus' = EventsAfterRead(spawn_bus)
    /\ ran' = ran \cup {"asteroid_generation_system"}
    /\ UNCHANGED <<input, world, bus, pc, delivered>>

\* asteroid_generation_system after asteroid_spawn_system, unless it ran
\* already in this frame
asteroid_generation_late ==
    \/ /\ "asteroid_generation_system" \notin ran
       /\ asteroid_generation_system
    \/ /\ "asteroid_generation_system" \in ran
       /\ pc = "asteroid_generation"
       /\ pc' = "weapon"
       /\ UNCHANGED <<input, world, bus, spawn_bus, commands, ran, delivered, issued>>

GenNext ==
    \/ First
    \/ movement_system
    \/ ship_state_system
    \/ apply_deferred
    \/ collision_system
    \/ asteroid_hit_system
    \/ ship_hit_system
    \/ ufo_hit_system
    \/ asteroid_generation_early
    \/ asteroid_spawn_system
    \/ asteroid_generation_late
    \/ weapon_quiet
    \/ ufo_spawn_quiet

GenSpec == LifeInit /\ [][GenNext]_vars

(* ----------------------------------------------------------------------- *)
\* C23: when the frame's Update ends, asteroid_generation_system has issued
\* exactly one spawn for each AsteroidSpawnEvent sent in the frame, of an
\* entity at the event's position with the event's radius that carries
\* Asteroid, Collidable and BoundaryRemoval, and no request is left unread:
\* request and generation happen in the same frame, whatever the order of
\* the systems.
C23_GeneratedInFrameOfRequest ==
    (pc = "end") =>
        LET sent == spawn_bus.new
            made == issued["asteroid_generation_system"]
        IN  /\ spawn_bus.unread = 0
            /\ Len(made) = Len(sent)
            /\ \A k \in 1..Len(made) :
                 /\ made[k].op = "spawn"
                 /\ made[k].ent.kind = "Asteroid"
                 /\ made[k].ent.pos = sent[k].pos
                 /\ made[k].ent.radius = sent[k].radius
                 /\ {"Asteroid", "Collidable", "BoundaryRemoval"} \subseteq made[k].ent.comps

(* ----------------------------------------------------------------------- *)
\* the hit events a reactor is about to read
Unread(p) == {EventsRead(bus[p])[k] : k \in 1..Len(EventsRead(bus[p]))}

\* When the reactors run, the lookup of every hurtable named by an unread
\* hit event succeeds: the events are those of this frame's
\* collision_system, and no Commands are applied between it and the
\* reactors.  The branch a reactor takes on a failed lookup is therefore
\* taken in no run.
LookupNeverFails ==
    (pc = "react") =>
        /\ \A h \in Unread(<<"Bullet", "Asteroid">>) : AsteroidLookup(world, Hurtable(h))
        /\ \A p \in {<<"Asteroid", "Ship">>, <<"Bullet", "Ship">>, <<"Ufo", "Ship">>} :
              \A h \in Unread(p) : ShipLookup(world, Hurtable(h))
        /\ \A p \in {<<"Bullet", "Ufo">>, <<"Asteroid", "Ufo">>} :
              \A h \in Unread(p) : UfoLookup(world, Hurtable(h))

(* ----------------------------------------------------------------------- *)
\* how many generations of splits are followed below
MaxSplitFuel == 4

\* the size tier a radius falls in: big, medium, small, or none of them
Tier(radius) ==
    IF Contains(AsteroidSizes.big, radius) THEN 3
    ELSE IF Contains(AsteroidSizes.medium, radius) THEN 2
    ELSE IF Contains(AsteroidSizes.small, radius) THEN 1
    ELSE 0

\* the fragments asteroid_hit_system can request for an asteroid of the
\* given radius, one sequence per draw
Splits(radius) ==
    {SplitEvents(<<0, 0>>, radius, d.medium, d.small) : d \in AsteroidDraws}

Largest(S) == CHOOSE m \in S : \A x \in S : x <= m

RECURSIVE SplitDepth(_, _)
\* the longest chain of splits that starts at an asteroid of the radius
SplitDepth(radius, fuel) ==
    IF fuel = 0 \/ Splits(radius) = {<<>>} THEN 0
    ELSE 1 + Largest({SplitDepth(ev[1].radius, fuel - 1) : ev \in Splits(radius)})

RECURSIVE Offspring(_, _)
\* the most asteroids that can descend from an asteroid of the radius
Offspring(radius, fuel) ==
    IF fuel = 0 \/ Splits(radius) = {<<>>} THEN 0
    ELSE Largest({Len(ev) * (1 + Offspring(ev[1].radius, fuel - 1)) : ev \in Splits(radius)})

\* C25: every fragment asteroid_hit_system requests lies one size tier
\* below the hit asteroid it comes from (big -> medium -> small) and a small
\* asteroid leaves none, so a chain of splits that starts at any asteroid
\* has at most 2 links and at most 8 asteroids descend from one asteroid.
C25_SplitsDescend ==
    /\ \A k \in 1..Len(spawn_bus.new) :
         \E a \in NamedAsteroids :
            /\ world[a].pos = spawn_bus.new[k].pos
            /\ Tier(spawn_bus.new[k].radius) >= 1
            /\ Tier(spawn_bus.new[k].radius) = Tier(Radius(world[a])) - 1
    /\ \A i \in DOMAIN world :
         world[i].kind = "Asteroid" =>
            /\ SplitDepth(Radius(world[i]), MaxSplitFuel) <= 2
            /\ Offspring(Radius(world[i]), MaxSplitFuel) <= 8

\* a frame in which a big and a medium asteroid were split
C25_Witness ==
    /\ "asteroid_hit_system" \in ran
    /\ \E k \in 1..Len(spawn_bus.new) : Tier(spawn_bus.new[k].radius) = 2
    /\ \E k \in 1..Len(spawn_bus.new) : Tier(spawn_bus.new[k].radius) = 1
    /\ \E i \in DOMAIN world :
         world[i].kind = "Asteroid" /\ SplitDepth(Radius(world[i]), MaxSplitFuel) = 2

(* ----------------------------------------------------------------------- *)
\* |c|
Abs(c) == IF c < 0 THEN -c ELSE c

\* C26: after a run of boundary_wrap_system no BoundaryWrap entity
\* satisfies the exit test on either axis; a coordinate the run changed sits
\* exactly at +/-(half_extent + 2 * radius); applying the wrap to the result
\* again gives the same position, and a later run with no movement in
\* between leaves the entity as it is.
C26_WrapLandsInside ==
    [][("boundary_wrap_system" \in ran' \ ran) =>
         \A i \in 1..3 :
           Wraps(world[i]) =>
             /\ ~ExitTest(world'[i])
             /\ (world'[i].pos[1] # world[i].pos[1]) =>
                    Abs(world'[i].pos[1]) = 400 * F32Scale + 2 * world[i].radius
             /\ (world'[i].pos[2] # world[i].pos[2]) =>
                    Abs(world'[i].pos[2]) = 300 * F32Scale + 2 * world[i].radius
             /\ WrapAxisF32(world'[i].pos[1], Radius(world'[i]), HalfWidth * F32Scale)
                    = world'[i].pos[1]
             /\ WrapAxisF32(world'[i].pos[2], Radius(world'[i]), HalfHeight * F32Scale)
                    = world'[i].pos[2]
             /\ (\E k \in 1..Len(issued) : issued[k].op = "wrap" /\ issued[k].e = i) =>
                    world'[i] = world[i]
      ]_vars

\* the ship was beyond a threshold on both axes, the first run of
\* boundary_wrap_system moved it, and the second run found it at the wrapped
\* position and left it there
C26_Witness ==
    /\ Len(issued) = 2
    /\ "boundary_wrap_system" \in ran
    /\ issued[1].op = "wrap" /\ issued[1].e = ShipId
    /\ issued[2].op = "wrap" /\ issued[2].e = ShipId
    /\ issued[1].ent.pos[1] > (400 + 2 * ShipRadius) * F32Scale
    /\ issued[1].ent.pos[2] < -(300 + 2 * ShipRadius) * F32Scale
    /\ issued[2].ent.pos = <<-(400 + 2 * ShipRadius) * F32Scale,
                             (300 + 2 * ShipRadius) * F32Scale>>
    /\ world[ShipId].pos = issued[2].ent.pos

(* ----------------------------------------------------------------------- *)
\* C27: an asteroid placed by asteroid_spawn_system at an edge coordinate
\* of +/-(half_extent + 2 * radius), and a UFO placed by ufo_spawn_system at
\* x = +/-(half_width + 30) with radius 15, does not satisfy the exit test:
\* boundary_remove_system issues no despawn for an entity that sits where
\* it was spawned.
C27_SpawnPointNotExit ==
    (world[3].kind \in {"Asteroid", "Ufo"}) =>
        /\ ~ExitTest(world[3])
        /\ \A k \in 1..Len(commands) : commands[k] # Despawn(3)

(* ----------------------------------------------------------------------- *)
\* the entities named as hittable (side 1) or hurtable (side 2) by the
\* frame's events of the given pairs
NamedBy(pairs, side) ==
    UNION {{delivered[p][k][side] : k \in 1..Len(delivered[p])} : p \in pairs}

\* C28: once the reactors have run, the commands of ship_hit_system are
\* inserts of the Ship component on a ship named as hurtable and spawns of
\* explosion particles, and applying them leaves every asteroid, bullet and
\* UFO that hit the ship as it was (alive and Collidable); the commands of
\* ufo_hit_system are despawns of a UFO named as hurtable, despawns of a
\* bullet of a Bullet x Ufo hit and spawns of explosion particles, and
\* applying them leaves the asteroid of every Asteroid x Ufo hit as it was.
\* No other entity is changed by either queue.
C28_ReactorsSpareHitter ==
    (pc \in {"asteroid_spawn", "asteroid_generation", "weapon", "ufo_spawn", "end"}) =>
        LET ship_q == issued["ship_hit_system"]
            ufo_q == issued["ufo_hit_system"]
            ship_w == ApplyQueue(world, ship_q)
            ufo_w == ApplyQueue(world, ufo_q)
            ufo_pairs == {BulletUfo, AsteroidUfo}
        IN  /\ \A k \in 1..Len(ship_q) :
                 /\ ship_q[k].op \in {"insert_ship", "spawn_explosions"}
                 /\ ship_q[k].e \in NamedBy(ShipPairs, 2)
            /\ \A h \in NamedBy(ShipPairs, 1) :
                 /\ ship_w[h] = world[h]
                 /\ Exists(ship_w, h)
                 /\ "Collidable" \in ship_w[h].comps
            /\ \A i \in Ids :
                 ship_w[i] # world[i] => i \in NamedBy(ShipPairs, 2) /\ world[i].kind = "Ship"
            /\ \A k \in 1..Len(ufo_q) :
                 \/ ufo_q[k].op \in {"despawn", "spawn_explosions"}
                       /\ ufo_q[k].e \in NamedBy(ufo_pairs, 2)
                 \/ ufo_q[k].op = "despawn" /\ ufo_q[k].e \in NamedBy({BulletUfo}, 1)
            /\ \A a \in NamedBy({AsteroidUfo}, 1) :
                 /\ ufo_w[a] = world[a]
                 /\ Exists(ufo_w, a)
                 /\ "Collidable" \in ufo_w[a].comps
            /\ \A i \in Ids :
                 ufo_w[i] # world[i] =>
                    i \in NamedBy(ufo_pairs, 2) \cup NamedBy({BulletUfo}, 1)

\* a frame in which an asteroid hit both the ship and a UFO: the ship was
\* made Dead, the UFO despawned, and the asteroid is named by neither queue
C28_Witness ==
    /\ pc = "end"
    /\ \E a \in NamedBy({AsteroidShip}, 1) \cap NamedBy({AsteroidUfo}, 1) :
         /\ world[a].kind = "Asteroid"
         /\ ApplyQueue(world, issued["ship_hit_system"] \o issued["ufo_hit_system"])[a]
               = world[a]
    /\ \E k \in 1..Len(issued["ship_hit_system"]) :
         issued["ship_hit_system"][k].op = "insert_ship"
    /\ \E u \in NamedBy({AsteroidUfo}, 2) : DespawnsOf("ufo_hit_system", u) = 1

(* ======================================================================= *)
(* Explosion particles and expiration_system: the frames of a run in which *)
(* hit reactors spawn particles a bounded number of times.  Here world     *)
(* holds the particles, issued logs the bursts, and delivered keeps, for   *)
(* each particle, the sum of the frame deltas since it was spawned.        *)
(* ======================================================================= *)
MaxParticles == 2
MaxBursts == 2

\* Time::delta of a frame, in ms
ExpiryDeltas == {DeltaStep \div 10, DeltaStep \div 4}

\* rng.gen_range(1000..1500) of ship_hit_system and rng.gen_range(400..700)
\* of asteroid_hit_system and ufo_hit_system, in ms
ExpirationMillis ==
    GenRange([start |-> 1000, end |-> 1500]) \cup GenRange([start |-> 400, end |-> 700])

\* commands.spawn(ExplosionBundle::default()) with the inserts of
\* Transform, Velocity, Expiration::new(d) and Flick
Particle(d) ==
    [NoEntity EXCEPT
       !.kind = "Explosion",
       !.comps = {"ShapeBundle", "Fill", "Explosion", "Velocity", "Damping",
                  "Expiration", "Transform", "Flick"},
       !.duration = d]

\* expiration.0.tick(time.delta())
ExpirationTick(ent, dt) == [ent EXCEPT !.elapsed = TimerTick(ent, dt)]

\* variant: finished only once elapsed has passed the duration
ExpirationFinishedLate(ent) == ent.elapsed > ent.duration

\* expiration.0.finished()
ExpirationFinished(ent) == TimerFinished(ent.elapsed, ent.duration)

ExpiryInit ==
    /\ world = [i \in 1..MaxParticles |-> NoEntity]
    /\ bus = [p \in Pairs |-> EmptyEvents]
    /\ spawn_bus = EmptyEvents
    /\ commands = <<>>
    /\ pc = "first"
    /\ ran = {}
    /\ delivered = [i \in 1..MaxParticles |-> 0]
    /\ issued = <<>>
    /\ input = NoInput

\* a frame whose Time::delta is zero, as the first frame's is
expiry_time_zero ==
    /\ pc = "first"
    /\ input' = NoInput
    /\ pc' = "update"
    /\ UNCHANGED <<world, bus, spawn_bus, commands, ran, delivered, issued>>

\* a frame with a positive Time::delta
expiry_time_update ==
    /\ pc = "first"
    /\ \E dt \in ExpiryDeltas : input' = [NoInput EXCEPT !.delta = dt]
    /\ pc' = "update"
    /\ UNCHANGED <<world, bus, spawn_bus, commands, ran, delivered, issued>>

\* Update: no hit, or a hit reactor spawns particles, each with its own
\* Expiration; its commands are applied when Update ends
hit_burst ==
    /\ pc = "update"
    /\ \/ UNCHANGED <<world, delivered, issued>>
       \/ /\ Len(issued) < MaxBursts
          /\ \E S \in SUBSET {i \in 1..MaxParticles : world[i].kind = "None"} :
               /\ S # {}
               /\ \E d \in [S -> ExpirationMillis] :
                    /\ world' = [i \in 1..MaxParticles |->
                                   IF i \in S THEN Particle(d[i]) ELSE world[i]]
                    /\ delivered' = [i \in 1..MaxParticles |->
                                       IF i \in S THEN 0 ELSE delivered[i]]
                    /\ issued' = issued \o
                         <<SpawnExplosions(0, Cardinality(S), {}, NoEntity)>>
    /\ pc' = "post_update"
    /\ UNCHANGED <<bus, spawn_bus, commands, ran, input>>

\* for (entity, mut expiration) in query.iter_mut(): tick, then despawn if
\* finished
expiration_system ==
    /\ pc = "post_update"
    /\ world' = [i \in 1..MaxParticles |->
                   IF "Expiration" \in world[i].comps
                   THEN ExpirationTick(world[i], input.delta)
                   ELSE world[i]]
    /\ commands' = commands \o
         SelectSeq([i \in 1..MaxParticles |-> Despawn(i)],
                   LAMBDA c : /\ "Expiration" \in world[c.e].comps
                              /\ ExpirationFinished(ExpirationTick(world[c.e], input.delta)))
    /\ delivered' = [i \in 1..MaxParticles |->
                       IF "Expiration" \in world[i].comps
                       THEN delivered[i] + input.delta
                       ELSE delivered[i]]
    /\ pc' = "sync"
    /\ UNCHANGED <<bus, spawn_bus, ran, issued, input>>

\* the despawns are applied when PostUpdate ends
expiry_apply_deferred ==
    /\ pc = "sync"
    /\ world' = ApplyQueue(world, commands)
    /\ commands' = <<>>
    /\ delivered' = [i \in 1..MaxParticles |->
                       IF ApplyQueue(world, commands)[i].kind = "None" THEN 0
                       ELSE delivered[i]]
    /\ pc' = "first"
    /\ UNCHANGED <<bus, spawn_bus, ran, issued, input>>

ExpiryNext ==
    \/ expiry_time_zero
    \/ expiry_time_update
    \/ hit_burst
    \/ expiration_system
    \/ expiry_apply_deferred

\* frames keep being stepped, and again and again with a positive delta
ExpirySpec ==
    /\ ExpiryInit
    /\ [][ExpiryNext]_vars
    /\ WF_vars(ExpiryNext)
    /\ SF_vars(expiry_time_update)

(* ----------------------------------------------------------------------- *)
\* C29: expiration_system issues a despawn for an entity carrying
\* Expiration(d) exactly in the frame in which the sum of the frame deltas
\* since its spawn reaches d, the sum being below d before that frame; so
\* every explosion particle is eventually despawned, and once the hits have
\* stopped no particle stays.
C29_ExpiryLifecycle ==
    /\ [][(pc = "post_update") =>
            \A i \in 1..MaxParticles :
              ("Expiration" \in world[i].comps) =>
                 /\ delivered[i] < world[i].duration
                 /\ (\E k \in 1..Len(commands') : commands'[k] = Despawn(i))
                        <=> delivered'[i] >= world[i].duration
         ]_vars
    /\ \A i \in 1..MaxParticles :
         (world[i].kind = "Explosion") ~> (world[i].kind = "None")
    /\ <>[](\A i \in 1..MaxParticles : world[i].kind = "None")

\* a particle with Expiration(1000 ms) gets its despawn in the frame in
\* which its 1000 ms are reached exactly, while a particle spawned with it
\* for 1499 ms stays
C29_Witness ==
    /\ pc = "sync"
    /\ world[1].duration = 1000 /\ delivered[1] = 1000
    /\ world[2].duration = 1499 /\ delivered[2] = 1000
    /\ commands = <<Despawn(1)>>

====
